---------------------------- MODULE Spec2Model ----------------------------
(***************************************************************************)
(* A model of the city builder's grid (src/src/map.rs), its tiles          *)
(* (src/src/tile.rs), the economic simulation (src/src/city.rs) and the    *)
(* edit state's event handling (src/src/edit_state.rs).                    *)
(*                                                                         *)
(* Numbers.  The program computes populations, pools, money and time in    *)
(* f64/f32.  The model computes them in fixed point: the integer n stands  *)
(* for n / Scale.  Sums, differences, minima and comparisons are exact;    *)
(* a product is rounded down to the next multiple of 1 / Scale.  IEEE      *)
(* rounding of sums is not modelled.                                       *)
(*                                                                         *)
(* Randomness.  A draw `p > task_rng().gen()` with gen() uniform in [0,1)  *)
(* can succeed iff p > 0 and can fail iff p < 1; the model takes both      *)
(* outcomes whenever both are possible.                                    *)
(***************************************************************************)
EXTENDS Integers, Sequences, FiniteSets, TLC

VARIABLES
    width, height, tiles, num_selected, num_regions,   \* map::Map
    current_time, population_pool, population, employable,
    earnings, funds, day,                              \* city::City
    action_state, current_tile, menu_visible, info_visible, \* EditState
    file,                                              \* the saved map file
    last                                               \* the last call and its result

vars == <<width, height, tiles, num_selected, num_regions,
          current_time, population_pool, population, employable,
          earnings, funds, day,
          action_state, current_tile, menu_visible, info_visible,
          file, last>>

mapVars == <<width, height, tiles, num_selected, num_regions>>
cityVars == <<current_time, population_pool, population, employable,
              earnings, funds, day>>
editVars == <<action_state, current_tile, menu_visible, info_visible>>

---------------------------------------------------------------------------
(* Fixed-point arithmetic                                                  *)

\* units per 1.0
Scale == 10000

Min(a, b) == IF a < b THEN a ELSE b
Max(a, b) == IF a > b THEN a ELSE b
Abs(a) == IF a < 0 THEN 0 - a ELSE a

\* a * b for fixed-point a and b, rounded down; the operands are split so
\* that no intermediate product leaves TLC's 32-bit integers
Mul(a, b) ==
    LET ah == a \div Scale
        al == a % Scale
        bh == b \div Scale
        bl == b % Scale
    IN  ah * bh * Scale + ah * bl + al * bh + (al * bl) \div Scale

\* a * (num / den) for a fixed-point a and a decimal constant num / den
Frac(a, num, den) ==
    LET q == a \div den
        r == a % den
    IN  q * num + (r * num) \div den

\* `x as uint` for a non-negative x: the integer part
AsUint(x) == x \div Scale

\* an integer as a fixed-point number (`n as f64`)
Fix(n) == n * Scale


---------------------------------------------------------------------------
(* Tiles (tile.rs) and the tile catalogue (game.rs, load_tiles)            *)

TileTypes == {"Void", "Grass", "Forest", "Water",
              "Residential", "Commercial", "Industrial", "Road"}
Zoned == {"Residential", "Commercial", "Industrial"}

\* The catalogue of load_tiles gives every zone max_pop_per_level = 50 and
\* max_levels = 6, and prices grass at 50, forest and road at 100, a zone at
\* 300 and water at 0.  These are arguments of TileType::residential,
\* ::commercial, ::industrial and Tile::new; the model runs with a smaller
\* catalogue, so that a full cell and a level-up happen within a few days
\* and the funds of a new city pay for a handful of edits.
MaxPopPerLevel == 1
MaxLevels == 1

GrassCost == 1
ForestCost == 1
WaterCost == 0
ZoneCost == 1
RoadCost == 1

\* the empty employees map of a residence (workplace index -> people)
NoEmployees == [w \in {} |-> 0]

\* Tile::new: variant 0, one region channel holding 0
Tile_new(tile_type, max_pop_per_level, max_levels, cost) ==
    [tile_type |-> tile_type,
     population |-> 0,
     max_pop_per_level |-> max_pop_per_level,
     max_levels |-> max_levels,
     production |-> 0,
     stored_goods |-> 0,
     employees |-> NoEmployees,
     variant |-> 0,
     regions |-> <<0>>,
     cost |-> cost]

AtlasNames == {"grass", "forest", "water", "residential", "commercial",
               "industrial", "road"}

\* load_tiles: the tile atlas
tile_atlas(name) ==
    CASE name = "grass" -> Tile_new("Grass", 0, 0, GrassCost)
      [] name = "forest" -> Tile_new("Forest", 0, 0, ForestCost)
      [] name = "water" -> Tile_new("Water", 0, 0, WaterCost)
      [] name = "residential" ->
            Tile_new("Residential", MaxPopPerLevel, MaxLevels, ZoneCost)
      [] name = "commercial" ->
            Tile_new("Commercial", MaxPopPerLevel, MaxLevels, ZoneCost)
      [] name = "industrial" ->
            Tile_new("Industrial", MaxPopPerLevel, MaxLevels, ZoneCost)
      [] name = "road" -> Tile_new("Road", 0, 0, RoadCost)

\* a tile of type Void: no catalogue entry has this type
VoidTile == Tile_new("Void", 0, 0, 0)

\* TileType::similar_to: the tags are compared, the payload is not
similar_to(a, b) == a = b

\* the resource counter every cell is created with
InitResources == 2

\* one element of Map::tiles
Cell(tile, resources, selection) ==
    [tile |-> tile, resources |-> resources, selection |-> selection]

---------------------------------------------------------------------------
(* The grid (map.rs).  tiles is a function on 0 .. width * height - 1,     *)
(* row-major: the cell (x, y) has index y * width + x.                     *)

\* f as a table of its values: TLC keeps [i \in S |-> e] as a closure and
\* evaluates e again at every application
Table(f) == f @@ f

Indices(w, h) == 0 .. (w * h - 1)
Point(x, y) == [x |-> x, y |-> y]

\* Map::clear_selected
clear_selected(ts) ==
    [tiles |-> Table([i \in DOMAIN ts |-> [ts[i] EXCEPT !.selection = "Deselected"]]),
     num_selected |-> 0]

\* the corners of Map::select with the swap of the y coordinates left out
select_corners_no_swap_y(w, h, start, end) ==
    LET sx == IF end.x < start.x THEN end.x ELSE start.x
        ex == IF end.x < start.x THEN start.x ELSE end.x
    IN  [sx |-> Min(Max(sx, 0), w - 1),
         sy |-> Min(Max(start.y, 0), h - 1),
         ex |-> Min(Max(ex, 0), w - 1),
         ey |-> Min(Max(end.y, 0), h - 1)]

\* the corners of Map::select after the swaps and the clamping
select_corners(w, h, start, end) ==
    LET sx == IF end.x < start.x THEN end.x ELSE start.x
        ex == IF end.x < start.x THEN start.x ELSE end.x
        sy == IF end.y < start.y THEN end.y ELSE start.y
        ey == IF end.y < start.y THEN start.y ELSE end.y
    IN  [sx |-> Min(Max(sx, 0), w - 1),
         sy |-> Min(Max(sy, 0), h - 1),
         ex |-> Min(Max(ex, 0), w - 1),
         ey |-> Min(Max(ey, 0), h - 1)]

\* Map::select with `self.num_selected += 1` for the blacklisted cells too
select_counts_invalid(ts, w, h, nsel, start, end, blacklisted) ==
    LET c == select_corners(w, h, start, end)
        inRect(i) == /\ (i % w) \in c.sx .. c.ex
                     /\ (i \div w) \in c.sy .. c.ey
        hit == {i \in DOMAIN ts : inRect(i)}
        good == {i \in hit : ts[i].tile.tile_type \notin blacklisted}
    IN  [tiles |-> Table([i \in DOMAIN ts |->
                      IF i \in good THEN [ts[i] EXCEPT !.selection = "Selected"]
                      ELSE IF i \in hit THEN [ts[i] EXCEPT !.selection = "Invalid"]
                      ELSE ts[i]]),
         num_selected |-> nsel + Cardinality(hit)]

\* Map::select; blacklisted is the set of tile types the closure accepts
select(ts, w, h, nsel, start, end, blacklisted) ==
    LET c == select_corners(w, h, start, end)
        inRect(i) == /\ (i % w) \in c.sx .. c.ex
                     /\ (i \div w) \in c.sy .. c.ey
        hit == {i \in DOMAIN ts : inRect(i)}
        good == {i \in hit : ts[i].tile.tile_type \notin blacklisted}
    IN  [tiles |-> Table([i \in DOMAIN ts |->
                      IF i \in good THEN [ts[i] EXCEPT !.selection = "Selected"]
                      ELSE IF i \in hit THEN [ts[i] EXCEPT !.selection = "Invalid"]
                      ELSE ts[i]]),
         num_selected |-> nsel + Cardinality(good)]

\* Map::selected: the indices of the cells flagged Selected
\* Map::selected taking the Invalid cells as well
selected_or_invalid(ts) ==
    {i \in DOMAIN ts : ts[i].selection \in {"Selected", "Invalid"}}

selected(ts) == {i \in DOMAIN ts : ts[i].selection = "Selected"}

RECURSIVE depth_first_search_no_north(_, _, _, _, _, _, _, _)
\* Map::depth_first_search without its last call, the one to the north
depth_first_search_no_north(ts, w, h, whitelisted, x, y, label, region_type) ==
    IF x < 0 \/ x >= w \/ y < 0 \/ y >= h THEN ts
    ELSE LET i == y * w + x IN
         IF ts[i].tile.regions[region_type + 1] # 0 THEN ts
         ELSE IF ts[i].tile.tile_type \in whitelisted
         THEN LET t0 == [ts EXCEPT ![i].tile.regions[region_type + 1] = label]
                  t1 == depth_first_search_no_north(t0, w, h, whitelisted, x - 1, y, label, region_type)
                  t2 == depth_first_search_no_north(t1, w, h, whitelisted, x, y + 1, label, region_type)
              IN  depth_first_search_no_north(t2, w, h, whitelisted, x + 1, y, label, region_type)
         ELSE ts

RECURSIVE depth_first_search(_, _, _, _, _, _, _, _)
\* Map::depth_first_search: label the cell, then west, south, east, north
depth_first_search(ts, w, h, whitelisted, x, y, label, region_type) ==
    IF x < 0 \/ x >= w \/ y < 0 \/ y >= h THEN ts
    ELSE LET i == y * w + x IN
         IF ts[i].tile.regions[region_type + 1] # 0 THEN ts
         ELSE IF ts[i].tile.tile_type \in whitelisted
         THEN LET t0 == [ts EXCEPT ![i].tile.regions[region_type + 1] = label]
                  t1 == depth_first_search(t0, w, h, whitelisted, x - 1, y, label, region_type)
                  t2 == depth_first_search(t1, w, h, whitelisted, x, y + 1, label, region_type)
                  t3 == depth_first_search(t2, w, h, whitelisted, x + 1, y, label, region_type)
              IN  depth_first_search(t3, w, h, whitelisted, x, y - 1, label, region_type)
         ELSE ts

RECURSIVE find_regions_scan_skips_labels(_, _, _, _, _, _, _)
\* the raster scan with `regions += 1` for every cell that has no label,
\* member or not
find_regions_scan_skips_labels(ts, w, h, whitelisted, region_type, i, regions) ==
    IF i >= w * h THEN [tiles |-> ts, regions |-> regions]
    ELSE IF ts[i].tile.regions[region_type + 1] # 0
    THEN find_regions_scan_skips_labels(ts, w, h, whitelisted, region_type, i + 1, regions)
    ELSE IF ts[i].tile.tile_type \in whitelisted
    THEN find_regions_scan_skips_labels(
             depth_first_search(ts, w, h, whitelisted, i % w, i \div w, regions, region_type),
             w, h, whitelisted, region_type, i + 1, regions + 1)
    ELSE find_regions_scan_skips_labels(ts, w, h, whitelisted, region_type, i + 1, regions + 1)

RECURSIVE find_regions_scan(_, _, _, _, _, _, _)
\* the raster scan of Map::find_connected_regions from index i on, with
\* `regions` the next unused label
find_regions_scan(ts, w, h, whitelisted, region_type, i, regions) ==
    IF i >= w * h THEN [tiles |-> ts, regions |-> regions]
    ELSE IF ts[i].tile.regions[region_type + 1] # 0
    THEN find_regions_scan(ts, w, h, whitelisted, region_type, i + 1, regions)
    ELSE IF ts[i].tile.tile_type \in whitelisted
    THEN find_regions_scan(
             depth_first_search(ts, w, h, whitelisted, i % w, i \div w, regions, region_type),
             w, h, whitelisted, region_type, i + 1, regions + 1)
    ELSE find_regions_scan(ts, w, h, whitelisted, region_type, i + 1, regions)

\* Map::find_connected_regions without the loop that sets every label to 0
find_connected_regions_keeps_labels(ts, w, h, whitelisted, region_type) ==
    find_regions_scan(ts, w, h, whitelisted, region_type, 0, 1)

\* Map::find_connected_regions: returns the relabelled tiles and the value
\* stored in num_regions[region_type]
find_connected_regions(ts, w, h, whitelisted, region_type) ==
    LET cleared == Table([i \in DOMAIN ts |->
                      [ts[i] EXCEPT !.tile.regions[region_type + 1] = 0]])
    IN  find_regions_scan(cleared, w, h, whitelisted, region_type, 0, 1)

\* the variant Map::update_direction gives a tile from its neighbours
\* (adj[r][c]: r = 0 the row above, c = 0 the column to the left); old is
\* kept when no neighbour is similar
direction_variant(a10, a12, a01, a21, old) ==
    IF a10 /\ a12 /\ a01 /\ a21 THEN 2
    ELSE IF a10 /\ a12 /\ a01 THEN 7
    ELSE IF a10 /\ a12 /\ a21 THEN 8
    ELSE IF a01 /\ a21 /\ a10 THEN 9
    ELSE IF a01 /\ a21 /\ a12 THEN 10
    ELSE IF a10 /\ a12 THEN 0
    ELSE IF a01 /\ a21 THEN 1
    ELSE IF a21 /\ a10 THEN 3
    ELSE IF a01 /\ a12 THEN 4
    ELSE IF a10 /\ a01 THEN 5
    ELSE IF a21 /\ a12 THEN 6
    ELSE IF a10 THEN 0
    ELSE IF a12 THEN 0
    ELSE IF a01 THEN 1
    ELSE IF a21 THEN 1
    ELSE old

\* Map::update_direction: only the tiles similar to tile_type get a variant,
\* and only tile types are read, so the scan order does not matter
update_direction(ts, w, h, tile_type) ==
    LET sim(x, y) == /\ x >= 0 /\ x < w /\ y >= 0 /\ y < h
                     /\ similar_to(ts[y * w + x].tile.tile_type, tile_type)
    IN  Table([i \in DOMAIN ts |->
           LET x == i % w
               y == i \div w
           IN  IF ~similar_to(ts[i].tile.tile_type, tile_type) THEN ts[i]
               ELSE [ts[i] EXCEPT !.tile.variant =
                        direction_variant(sim(x - 1, y), sim(x + 1, y),
                                          sim(x, y - 1), sim(x, y + 1), @)]])


---------------------------------------------------------------------------
(* The city (city.rs)                                                      *)

\* City::new: 0.00055 and 0.00023 per day, in units of 1 / RateDen
RateDen == 100000
BirthRate == 55
DeathRate == 23
\* prop_can_work and the three taxes, in percent
PropCanWork == 50
ResidentialTax == 5
CommercialTax == 5
IndustrialTax == 5
\* time_per_day, in seconds
TimePerDay == 1
\* day % 30 == 0: the monthly settlement
DaysPerMonth == 30

RECURSIVE SumSet(_, _)
\* the sum of f over the set S
SumSet(S, f) ==
    IF S = {} THEN 0
    ELSE LET x == CHOOSE x \in S : TRUE IN f[x] + SumSet(S \ {x}, f)

\* employees.iter().map(|(_, &employees)| employees).sum()
employees_sum(tile) == SumSet(DOMAIN tile.employees, tile.employees)

\* distribute_pool without its last step, the return of what exceeds max_pop
distribute_pool_noclamp(pool, pop, max_pop, change_rate) ==
    LET moving == Min(Min(max_pop - pop, Fix(4)), pool)
        pool1 == IF pool > 0 THEN pool - moving ELSE pool
        pop1 == IF pool > 0 THEN pop + moving ELSE pop
    IN  <<pool1, pop1 + Frac(pop1, change_rate, RateDen)>>

\* distribute_pool with the population cut to max_pop and the cut dropped
distribute_pool_drops(pool, pop, max_pop, change_rate) ==
    LET r == distribute_pool_noclamp(pool, pop, max_pop, change_rate)
    IN  <<r[1], Min(r[2], max_pop)>>

\* distribute_pool with max_pop enforced before the growth instead of after
distribute_pool_grows_last(pool, pop, max_pop, change_rate) ==
    LET r == distribute_pool_noclamp(pool, pop, max_pop, 0)
        pool1 == IF r[2] > max_pop THEN r[1] + (r[2] - max_pop) ELSE r[1]
        pop1 == Min(r[2], max_pop)
    IN  <<pool1, pop1 + Frac(pop1, change_rate, RateDen)>>

\* distribute_pool; change_rate is in units of 1 / RateDen.  Returns
\* <<pool, population>>.
distribute_pool(pool, pop, max_pop, change_rate) ==
    LET moving == Min(Min(max_pop - pop, Fix(4)), pool)
        pool1 == IF pool > 0 THEN pool - moving ELSE pool
        pop1 == IF pool > 0 THEN pop + moving ELSE pop
        pop2 == pop1 + Frac(pop1, change_rate, RateDen)
    IN  IF pop2 > max_pop
        THEN <<pool1 + (pop2 - max_pop), max_pop>>
        ELSE <<pool1, pop2>>

\* get_unemployed: the residents of a home who can work and have no job,
\* or -1 for None
get_unemployed(tile) ==
    IF tile.tile_type = "Residential"
    THEN LET unemployed == Frac(tile.population, PropCanWork, 100) - employees_sum(tile)
         IN  IF unemployed > 0 THEN unemployed ELSE -1
    ELSE -1

RECURSIVE get_all_unemployed(_, _, _)
\* get_all_unemployed: <<people, home index>> for every home with
\* unemployed residents, in the order of `indices` (from position k on)
get_all_unemployed(indices, ts, k) ==
    IF k > Len(indices) THEN <<>>
    ELSE LET u == get_unemployed(ts[indices[k]].tile)
             rest == get_all_unemployed(indices, ts, k + 1)
         IN  IF u >= 0 THEN <<[people |-> u, home |-> indices[k]]>> \o rest
             ELSE rest

RECURSIVE SumPeople(_, _)
\* unemployed.iter().map(|&(people, _)| people).sum()
SumPeople(unemployed, k) ==
    IF k > Len(unemployed) THEN 0
    ELSE unemployed[k].people + SumPeople(unemployed, k + 1)

\* max_pop_per_level * (tile.variant + 1), as f64
max_pop_of(tile) == Fix(tile.max_pop_per_level * (tile.variant + 1))

\* the outcomes of `p > task_rng().gen()` given whether p > 0 and p < 1
Draw(positive, belowOne) ==
    {b \in BOOLEAN : (b => positive) /\ (~b => belowOne)}

\* Tile::update without `self.variant < max_levels`
Tile_update_no_cap(tile) ==
    IF /\ tile.tile_type \in Zoned
       /\ AsUint(tile.population) = tile.max_pop_per_level * (tile.variant + 1)
    THEN {tile, [tile EXCEPT !.variant = @ + 1]}
    ELSE {tile}

\* Tile::update without the comparison of the population with the
\* capacity of the level
Tile_update_not_full(tile) ==
    IF /\ tile.tile_type \in Zoned
       /\ tile.variant < tile.max_levels
    THEN {tile, [tile EXCEPT !.variant = @ + 1]}
    ELSE {tile}

\* Tile::update: the level-up check; the set of tiles it can leave
Tile_update(tile) ==
    IF /\ tile.tile_type \in Zoned
       /\ AsUint(tile.population) = tile.max_pop_per_level * (tile.variant + 1)
       /\ tile.variant < tile.max_levels
    THEN {tile, [tile EXCEPT !.variant = @ + 1]}
    ELSE {tile}

\* the local variables of City::update together with the fields it writes
TickState(ts, pool) ==
    [tiles |-> ts, pool |-> pool,
     pop_total |-> 0, commercial_revenue |-> 0, industrial_revenue |-> 0,
     empty_homes |-> 0, free_jobs |-> 0, stores |-> 0, industries |-> 0,
     unemployed |-> <<>>, num_unemployed |-> 0]

\* population distribution pass, one index: the set of outcomes
population_step(s, index) ==
    LET tile == s.tiles[index].tile IN
    IF tile.tile_type # "Residential" THEN {s}
    ELSE
      LET max_pop == max_pop_of(tile)
          unemployed == tile.population - Frac(employees_sum(tile), 100, PropCanWork)
      IN  { LET new_homeless == IF lose THEN Frac(unemployed, 1, 10) ELSE 0
                r == distribute_pool(s.pool + new_homeless,
                                     tile.population - new_homeless,
                                     max_pop, BirthRate - DeathRate)
            IN  [s EXCEPT !.tiles[index].tile.population = r[2],
                          !.pool = r[1],
                          !.empty_homes = @ + (max_pop - r[2]),
                          !.pop_total = @ + r[2]]
            : lose \in Draw(TRUE, TRUE) }

\* the work places' loop over the unemployed, from entry k on: w is
\* [population, unemployed, num_unemployed]; the set of outcomes
RECURSIVE hire_loop(_, _, _, _)
hire_loop(w, max_pop, tax, k) ==
    IF k > Len(w.unemployed) THEN {w}
    ELSE
      LET people == w.unemployed[k].people
          num == w.num_unemployed
          \* (people / num_unemployed) * (1 - tax) * 0.15
          positive == IF num = 0 THEN people > 0
                      ELSE (people > 0 /\ num > 0) \/ (people < 0 /\ num < 0)
          belowOne == IF num = 0 THEN people <= 0
                      ELSE IF num > 0 THEN people * (100 - tax) * 15 < num * 10000
                      ELSE people * (100 - tax) * 15 > num * 10000
          r == distribute_pool(people, w.population, max_pop, 0)
          hired == [population |-> r[2],
                    unemployed |-> [w.unemployed EXCEPT ![k].people = r[1]],
                    num_unemployed |-> num - (people - r[1])]
      IN  UNION { hire_loop(IF hire THEN hired ELSE w, max_pop, tax, k + 1)
                  : hire \in Draw(positive, belowOne) }

\* the employment distribution pass of one index with an industry producing
\* whether or not `*resources > 0`
employment_work_no_guard(s, index) ==
    LET cell == s.tiles[index]
        tile == cell.tile
        max_pop == max_pop_of(tile)
        loop(pop, tax) == hire_loop([population |-> pop,
                                     unemployed |-> s.unemployed,
                                     num_unemployed |-> s.num_unemployed],
                                    max_pop, tax, 1)
    IN
    IF tile.tile_type = "Commercial"
    THEN { [s EXCEPT !.tiles[index].tile.population = w.population,
                     !.unemployed = w.unemployed,
                     !.num_unemployed = w.num_unemployed,
                     !.stores = @ + 1,
                     !.free_jobs = @ + (max_pop - w.population)]
           : w \in loop(tile.population, CommercialTax) }
    ELSE IF tile.tile_type = "Industrial"
    THEN UNION {
           { [s EXCEPT !.tiles[index].tile.population = w.population,
                       !.tiles[index].tile.production =
                            IF produce THEN @ + 1 ELSE @,
                       !.tiles[index].resources =
                            IF produce THEN @ - 1 ELSE @,
                       !.unemployed = w.unemployed,
                       !.num_unemployed = w.num_unemployed,
                       !.industries = @ + 1,
                       !.free_jobs = @ + (max_pop - w.population)]
             : w \in loop(tile.population, IndustrialTax) }
           \* *population * 0.01 > task_rng().gen()
           : produce \in Draw(tile.population > 0, tile.population < Fix(100)) }
    ELSE {s}

\* the employment distribution pass of one index with an industry that
\* produces without `*resources -= 1`
employment_work_keeps_resources(s, index) ==
    LET cell == s.tiles[index]
        tile == cell.tile
        max_pop == max_pop_of(tile)
        loop(pop, tax) == hire_loop([population |-> pop,
                                     unemployed |-> s.unemployed,
                                     num_unemployed |-> s.num_unemployed],
                                    max_pop, tax, 1)
    IN
    IF tile.tile_type = "Commercial"
    THEN { [s EXCEPT !.tiles[index].tile.population = w.population,
                     !.unemployed = w.unemployed,
                     !.num_unemployed = w.num_unemployed,
                     !.stores = @ + 1,
                     !.free_jobs = @ + (max_pop - w.population)]
           : w \in loop(tile.population, CommercialTax) }
    ELSE IF tile.tile_type = "Industrial"
    THEN UNION {
           { [s EXCEPT !.tiles[index].tile.population = w.population,
                       !.tiles[index].tile.production =
                            IF produce THEN @ + 1 ELSE @,
                       !.unemployed = w.unemployed,
                       !.num_unemployed = w.num_unemployed,
                       !.industries = @ + 1,
                       !.free_jobs = @ + (max_pop - w.population)]
             : w \in loop(tile.population, IndustrialTax) }
           \* *resources > 0 && *population * 0.01 > task_rng().gen()
           : produce \in Draw(cell.resources > 0 /\ tile.population > 0,
                              cell.resources = 0 \/ tile.population < Fix(100)) }
    ELSE {s}

\* employment distribution pass, one index, up to tile.update()
employment_work(s, index) ==
    LET cell == s.tiles[index]
        tile == cell.tile
        max_pop == max_pop_of(tile)
        loop(pop, tax) == hire_loop([population |-> pop,
                                     unemployed |-> s.unemployed,
                                     num_unemployed |-> s.num_unemployed],
                                    max_pop, tax, 1)
    IN
    IF tile.tile_type = "Commercial"
    THEN { [s EXCEPT !.tiles[index].tile.population = w.population,
                     !.unemployed = w.unemployed,
                     !.num_unemployed = w.num_unemployed,
                     !.stores = @ + 1,
                     !.free_jobs = @ + (max_pop - w.population)]
           : w \in loop(tile.population, CommercialTax) }
    ELSE IF tile.tile_type = "Industrial"
    THEN UNION {
           { [s EXCEPT !.tiles[index].tile.population = w.population,
                       !.tiles[index].tile.production =
                            IF produce THEN @ + 1 ELSE @,
                       !.tiles[index].resources =
                            IF produce THEN @ - 1 ELSE @,
                       !.unemployed = w.unemployed,
                       !.num_unemployed = w.num_unemployed,
                       !.industries = @ + 1,
                       !.free_jobs = @ + (max_pop - w.population)]
             : w \in loop(tile.population, IndustrialTax) }
           \* *resources > 0 && *population * 0.01 > task_rng().gen()
           : produce \in Draw(cell.resources > 0 /\ tile.population > 0,
                              cell.resources = 0 \/ tile.population < Fix(100)) }
    ELSE {s}

\* employment distribution pass, one index: the set of outcomes
employment_step(s, index) ==
    UNION { { [s1 EXCEPT !.tiles[index].tile = t]
              : t \in Tile_update(s1.tiles[index].tile) }
            : s1 \in employment_work(s, index) }


RECURSIVE manufacture_scan_any_region(_, _, _, _, _)
\* the scan of the manufacture pass without `tile2.regions[0] == region`
manufacture_scan_any_region(ts, region, level, i, received) ==
    IF i \notin DOMAIN ts THEN [tiles |-> ts, received |-> received]
    ELSE LET tile2 == ts[i].tile IN
         IF tile2.tile_type = "Industrial"
         THEN LET take == tile2.production > 0
                  ts1 == IF take THEN [ts EXCEPT ![i].tile.production = @ - 1]
                         ELSE ts
                  rec1 == IF take THEN received + 1 ELSE received
              IN  IF rec1 >= level THEN [tiles |-> ts1, received |-> rec1]
                  ELSE manufacture_scan_any_region(ts1, region, level, i + 1, rec1)
         ELSE manufacture_scan_any_region(ts, region, level, i + 1, received)

RECURSIVE manufacture_scan_no_break(_, _, _, _, _)
\* the scan of the manufacture pass without
\* `if received_resources >= level { break; }`
manufacture_scan_no_break(ts, region, level, i, received) ==
    IF i \notin DOMAIN ts THEN [tiles |-> ts, received |-> received]
    ELSE LET tile2 == ts[i].tile IN
         IF tile2.regions[1] = region /\ tile2.tile_type = "Industrial"
         THEN LET take == tile2.production > 0
                  ts1 == IF take THEN [ts EXCEPT ![i].tile.production = @ - 1]
                         ELSE ts
                  rec1 == IF take THEN received + 1 ELSE received
              IN  manufacture_scan_no_break(ts1, region, level, i + 1, rec1)
         ELSE manufacture_scan_no_break(ts, region, level, i + 1, received)

RECURSIVE manufacture_scan(_, _, _, _, _)
\* manufacture pass: the scan over all tiles (raster order, from i on) that
\* collects production in `region`; stops once `level` units are received
manufacture_scan(ts, region, level, i, received) ==
    IF i \notin DOMAIN ts THEN [tiles |-> ts, received |-> received]
    ELSE LET tile2 == ts[i].tile IN
         IF tile2.regions[1] = region /\ tile2.tile_type = "Industrial"
         THEN LET take == tile2.production > 0
                  ts1 == IF take THEN [ts EXCEPT ![i].tile.production = @ - 1]
                         ELSE ts
                  rec1 == IF take THEN received + 1 ELSE received
              IN  IF rec1 >= level THEN [tiles |-> ts1, received |-> rec1]
                  ELSE manufacture_scan(ts1, region, level, i + 1, rec1)
         ELSE manufacture_scan(ts, region, level, i + 1, received)

\* manufacture pass, one index, with
\* `*stored_goods += received_resources * level`
manufacture_step_collected_only(s, index) ==
    LET tile == s.tiles[index].tile IN
    IF tile.tile_type # "Industrial" THEN {s}
    ELSE LET level == tile.variant + 1
             r == manufacture_scan(s.tiles, tile.regions[1], level, 0, 0)
         IN  { [s EXCEPT !.tiles = [r.tiles EXCEPT ![index].tile.stored_goods =
                                       @ + r.received * level]] }

\* manufacture pass, one index
manufacture_step(s, index) ==
    LET tile == s.tiles[index].tile IN
    IF tile.tile_type # "Industrial" THEN {s}
    ELSE LET level == tile.variant + 1
             r == manufacture_scan(s.tiles, tile.regions[1], level, 0, 0)
             production == r.tiles[index].tile.production
         IN  { [s EXCEPT !.tiles = [r.tiles EXCEPT ![index].tile.stored_goods =
                                       @ + (r.received + production) * level]] }

RECURSIVE goods_scan_takes_all(_, _, _, _)
\* the scan of the goods distribution pass with `while *stored_goods > 0`,
\* without `&& received_goods < level`
goods_scan_takes_all(g, region, level, i) ==
    IF i \notin DOMAIN g.tiles THEN g
    ELSE LET tile2 == g.tiles[i].tile IN
         IF tile2.regions[1] # region
         THEN goods_scan_takes_all(g, region, level, i + 1)
         ELSE LET take == IF tile2.tile_type = "Industrial"
                          THEN tile2.stored_goods ELSE 0
                  g1 == [tiles |-> [g.tiles EXCEPT ![i].tile.stored_goods = @ - take],
                         received_goods |-> g.received_goods + take,
                         max_customers |-> g.max_customers +
                              (IF tile2.tile_type = "Residential"
                               THEN tile2.population ELSE 0)]
              IN  IF g1.received_goods >= level THEN g1
                  ELSE goods_scan_takes_all(g1, region, level, i + 1)

RECURSIVE goods_scan(_, _, _, _)
\* goods distribution pass: the scan over all tiles (raster order, from i
\* on) of `region`; g is [tiles, received_goods, max_customers, sold]
goods_scan(g, region, level, i) ==
    IF i \notin DOMAIN g.tiles THEN g
    ELSE LET tile2 == g.tiles[i].tile IN
         IF tile2.regions[1] # region
         THEN goods_scan(g, region, level, i + 1)
         ELSE LET take == IF tile2.tile_type = "Industrial"
                          THEN Min(tile2.stored_goods,
                                   Max(level - g.received_goods, 0))
                          ELSE 0
                  g1 == [tiles |-> [g.tiles EXCEPT ![i].tile.stored_goods = @ - take],
                         received_goods |-> g.received_goods + take,
                         max_customers |-> g.max_customers +
                              (IF tile2.tile_type = "Residential"
                               THEN tile2.population ELSE 0)]
              IN  IF g1.received_goods >= level THEN g1
                  ELSE goods_scan(g1, region, level, i + 1)

\* the values taken for 20.0 * task_rng().gen(), a number in [0, 20)
NoiseSamples == {0, Fix(10)}

\* goods distribution pass, one index: the set of outcomes
goods_step(s, index) ==
    LET tile == s.tiles[index].tile IN
    IF tile.tile_type # "Commercial" THEN {s}
    ELSE LET level == tile.variant + 1
             g == goods_scan([tiles |-> s.tiles, received_goods |-> 0,
                              max_customers |-> 0],
                             tile.regions[1], level, 0)
         IN  { LET production == Frac(Fix(g.received_goods * 100) + noise,
                                      100 - CommercialTax, 100)
               IN  [s EXCEPT
                      !.tiles = g.tiles,
                      !.industrial_revenue =
                          @ + g.received_goods * Fix(100 - IndustrialTax),
                      !.commercial_revenue =
                          @ + Frac(Mul(Mul(production, g.max_customers),
                                       tile.population), 1, 100)]
               : noise \in NoiseSamples }

\* one index of one pass
pass_step(pass, s, index) ==
    CASE pass = "population" -> population_step(s, index)
      [] pass = "employment" -> employment_step(s, index)
      [] pass = "manufacture" -> manufacture_step(s, index)
      [] pass = "goods" -> goods_step(s, index)

RECURSIVE run_pass(_, _, _, _)
\* `for &index in shuffled_indices.iter()` from position k on, started in
\* any state of S: the set of states the loop can end in
run_pass(pass, S, order, k) ==
    IF k > Len(order) THEN S
    ELSE run_pass(pass, UNION {pass_step(pass, s, order[k]) : s \in S},
                  order, k + 1)

\* the unemployed list is built between the first two passes
with_unemployed(s, order) ==
    LET u == get_all_unemployed(order, s.tiles, 1)
    IN  [s EXCEPT !.unemployed = u, !.num_unemployed = SumPeople(u, 1)]

\* the four passes over `order`: the set of states they can end in, and
\* whether assert!(num_unemployed >= 0.0) can fail after the second pass
run_passes(s, order) ==
    LET p1 == run_pass("population", {s}, order, 1)
        p2 == run_pass("employment", {with_unemployed(x, order) : x \in p1}, order, 1)
        p3 == run_pass("manufacture", {x \in p2 : x.num_unemployed >= 0}, order, 1)
    IN  [done |-> run_pass("goods", p3, order, 1),
         panic |-> \E x \in p2 : x.num_unemployed < 0]

\* the end of City::update with people moving in whenever `prob` allows,
\* without `stores > 0 && industries > 0`
settle_without_work_places(s, c) ==
    LET pool0 == s.pool + Frac(s.pool, BirthRate - DeathRate, RateDen)
        ex1 == Max(s.empty_homes - pool0, 0)
        ex2 == Max(s.free_jobs - s.num_unemployed, 0)
        base == Frac(Mul(ex1, ex2), 100 - ResidentialTax, 100)
        imigrants == Fix(1) + Frac(base, 1, 10000)
        \* prob = base * 0.00001
        arrive == Draw(ex1 > 0 /\ ex2 > 0, base < Fix(100000))
    IN  UNION { LET pool1 == IF a THEN pool0 + imigrants ELSE pool0
                    crowd == pool1 + s.num_unemployed
                    leave == IF pool1 > s.empty_homes \/ s.num_unemployed > s.free_jobs
                             THEN Draw(crowd > 0, crowd < Fix(100))
                             ELSE {FALSE}
                IN  { LET pool2 == IF l THEN pool1 - (Frac(crowd, 5, 100) + Fix(1))
                                   ELSE pool1
                          pop_total == s.pop_total + pool2
                          new_workers == Frac(Abs(pop_total - c.population), PropCanWork, 100)
                          employable1 == c.employable + new_workers
                      IN  [pool |-> pool2,
                           population |-> pop_total,
                           employable |-> IF employable1 < 0 THEN 0 ELSE employable1,
                           earnings |-> c.earnings
                               + Frac((pop_total - pool2) * 15, ResidentialTax, 100)
                               + Frac(s.commercial_revenue, CommercialTax, 100)
                               + Frac(s.industrial_revenue, IndustrialTax, 100)]
                      : l \in leave }
                : a \in arrive }

\* the end of City::update with `self.population = pop_total` taken before
\* `pop_total += self.population_pool`
settle_reports_residents(s, c) ==
    LET pool0 == s.pool + Frac(s.pool, BirthRate - DeathRate, RateDen)
        ex1 == Max(s.empty_homes - pool0, 0)
        ex2 == Max(s.free_jobs - s.num_unemployed, 0)
        base == Frac(Mul(ex1, ex2), 100 - ResidentialTax, 100)
        imigrants == Fix(1) + Frac(base, 1, 10000)
        \* prob = base * 0.00001
        arrive == IF s.stores > 0 /\ s.industries > 0
                  THEN Draw(ex1 > 0 /\ ex2 > 0, base < Fix(100000))
                  ELSE {FALSE}
    IN  UNION { LET pool1 == IF a THEN pool0 + imigrants ELSE pool0
                    crowd == pool1 + s.num_unemployed
                    leave == IF pool1 > s.empty_homes \/ s.num_unemployed > s.free_jobs
                             THEN Draw(crowd > 0, crowd < Fix(100))
                             ELSE {FALSE}
                IN  { LET pool2 == IF l THEN pool1 - (Frac(crowd, 5, 100) + Fix(1))
                                   ELSE pool1
                          pop_total == s.pop_total + pool2
                          new_workers == Frac(Abs(pop_total - c.population), PropCanWork, 100)
                          employable1 == c.employable + new_workers
                      IN  [pool |-> pool2,
                           population |-> s.pop_total,
                           employable |-> IF employable1 < 0 THEN 0 ELSE employable1,
                           earnings |-> c.earnings
                               + Frac((pop_total - pool2) * 15, ResidentialTax, 100)
                               + Frac(s.commercial_revenue, CommercialTax, 100)
                               + Frac(s.industrial_revenue, IndustrialTax, 100)]
                      : l \in leave }
                : a \in arrive }

\* the end of City::update, after the passes: pool growth, migration, the
\* totals and the earnings.  c is [population, employable, earnings]; the
\* set of [pool, population, employable, earnings] it can end with
\* the settlement that counts the change of the population with its sign
settle_signed_workers(s, c) ==
    LET pool0 == s.pool + Frac(s.pool, BirthRate - DeathRate, RateDen)
        ex1 == Max(s.empty_homes - pool0, 0)
        ex2 == Max(s.free_jobs - s.num_unemployed, 0)
        base == Frac(Mul(ex1, ex2), 100 - ResidentialTax, 100)
        imigrants == Fix(1) + Frac(base, 1, 10000)
        \* prob = base * 0.00001
        arrive == IF s.stores > 0 /\ s.industries > 0
                  THEN Draw(ex1 > 0 /\ ex2 > 0, base < Fix(100000))
                  ELSE {FALSE}
    IN  UNION { LET pool1 == IF a THEN pool0 + imigrants ELSE pool0
                    crowd == pool1 + s.num_unemployed
                    leave == IF pool1 > s.empty_homes \/ s.num_unemployed > s.free_jobs
                             THEN Draw(crowd > 0, crowd < Fix(100))
                             ELSE {FALSE}
                IN  { LET pool2 == IF l THEN pool1 - (Frac(crowd, 5, 100) + Fix(1))
                                   ELSE pool1
                          pop_total == s.pop_total + pool2
                          new_workers == Frac(pop_total - c.population, PropCanWork, 100)
                          employable1 == c.employable + new_workers
                      IN  [pool |-> pool2,
                           population |-> pop_total,
                           employable |-> IF employable1 < 0 THEN 0 ELSE employable1,
                           earnings |-> c.earnings
                               + Frac((pop_total - pool2) * 15, ResidentialTax, 100)
                               + Frac(s.commercial_revenue, CommercialTax, 100)
                               + Frac(s.industrial_revenue, IndustrialTax, 100)]
                      : l \in leave }
                : a \in arrive }

settle(s, c) ==
    LET pool0 == s.pool + Frac(s.pool, BirthRate - DeathRate, RateDen)
        ex1 == Max(s.empty_homes - pool0, 0)
        ex2 == Max(s.free_jobs - s.num_unemployed, 0)
        base == Frac(Mul(ex1, ex2), 100 - ResidentialTax, 100)
        imigrants == Fix(1) + Frac(base, 1, 10000)
        \* prob = base * 0.00001
        arrive == IF s.stores > 0 /\ s.industries > 0
                  THEN Draw(ex1 > 0 /\ ex2 > 0, base < Fix(100000))
                  ELSE {FALSE}
    IN  UNION { LET pool1 == IF a THEN pool0 + imigrants ELSE pool0
                    crowd == pool1 + s.num_unemployed
                    leave == IF pool1 > s.empty_homes \/ s.num_unemployed > s.free_jobs
                             THEN Draw(crowd > 0, crowd < Fix(100))
                             ELSE {FALSE}
                IN  { LET pool2 == IF l THEN pool1 - (Frac(crowd, 5, 100) + Fix(1))
                                   ELSE pool1
                          pop_total == s.pop_total + pool2
                          new_workers == Frac(Abs(pop_total - c.population), PropCanWork, 100)
                          employable1 == c.employable + new_workers
                      IN  [pool |-> pool2,
                           population |-> pop_total,
                           employable |-> IF employable1 < 0 THEN 0 ELSE employable1,
                           earnings |-> c.earnings
                               + Frac((pop_total - pool2) * 15, ResidentialTax, 100)
                               + Frac(s.commercial_revenue, CommercialTax, 100)
                               + Frac(s.industrial_revenue, IndustrialTax, 100)]
                      : l \in leave }
                : a \in arrive }


RECURSIVE Permutations_of(_)
\* the orders task_rng().shuffle can leave the elements of S in
Permutations_of(S) ==
    IF S = {} THEN {<<>>}
    ELSE UNION { { <<x>> \o p : p \in Permutations_of(S \ {x}) } : x \in S }

\* ShuffledItems::new(..).into_indices(): a permutation of 0 .. len - 1
shuffled_indices(ts) == Permutations_of(DOMAIN ts)

\* City::bulldoze without `self.population_pool += population`
bulldoze_keeps_pool(ts, pool, new_tile) ==
    [tiles |-> Table([i \in DOMAIN ts |->
                  IF ts[i].selection = "Selected"
                  THEN [ts[i] EXCEPT !.tile = new_tile] ELSE ts[i]]),
     pool |-> pool]

\* City::bulldoze replacing the whole cell, its resources included, by a
\* cell as Map::new_generated makes it
bulldoze_new_cells(ts, pool, new_tile) ==
    [tiles |-> Table([i \in DOMAIN ts |->
                  IF ts[i].selection = "Selected"
                  THEN Cell(new_tile, InitResources, "Selected") ELSE ts[i]]),
     pool |-> pool + SumSet({i \in DOMAIN ts : ts[i].selection = "Selected"
                                  /\ ts[i].tile.tile_type = "Residential"},
                            [i \in DOMAIN ts |-> ts[i].tile.population])]

\* City::bulldoze: returns the tiles and the population pool
bulldoze(ts, pool, new_tile) ==
    LET sel == selected(ts)
        homes == {i \in sel : ts[i].tile.tile_type = "Residential"}
        removed_jobs == {i \in sel : ts[i].tile.tile_type \in {"Commercial", "Industrial"}}
        \* the employees the bulldozed homes had at work place w
        workers_at(w) ==
            SumSet({i \in homes : w \in DOMAIN ts[i].tile.employees},
                   [i \in homes |-> IF w \in DOMAIN ts[i].tile.employees
                                    THEN ts[i].tile.employees[w] ELSE 0])
        pool1 == pool + SumSet(homes, [i \in homes |-> ts[i].tile.population])
        placed == Table([i \in DOMAIN ts |->
                     IF i \in sel THEN [ts[i] EXCEPT !.tile = new_tile] ELSE ts[i]])
        fixed(i) ==
            LET t == placed[i].tile IN
            IF t.tile_type = "Residential"
            THEN [t EXCEPT !.employees =
                     [w \in DOMAIN t.employees \ removed_jobs |-> t.employees[w]]]
            ELSE IF t.tile_type \in {"Commercial", "Industrial"}
            THEN [t EXCEPT !.population = @ - workers_at(i)]
            ELSE t
    IN  [tiles |-> Table([i \in DOMAIN ts |-> [placed[i] EXCEPT !.tile = fixed(i)]]),
         pool |-> pool1]

\* the tile types City::tiles_changed joins into regions
RegionMembers == {"Road", "Residential", "Commercial", "Industrial"}

\* City::tiles_changed: returns the tiles and num_regions[0]
tiles_changed(ts, w, h) ==
    find_connected_regions(update_direction(ts, w, h, "Road"), w, h,
                           RegionMembers, 0)


---------------------------------------------------------------------------
(* The city as the edit state drives it: Spec                              *)

\* the grid of Spec (Map::new_generated makes it 50 x 50)
CityW == 3
CityH == 1
\* update stops starting new days at this day
MaxDay == 2
\* the funds of a new city (EditState::new gives 10 000): with the prices
\* above, enough for three zones and one more edit
StartFunds == 4

\* the frame times the game loop passes to update, in seconds / Scale: one
\* shorter than a day, one longer
DtSamples == {Scale \div 2, 3 * Scale}

\* the cells the mouse can point at; select clamps a point outside the grid
\* to the nearest of these
MousePoints(w, h) == {Point(x, y) : x \in 0 .. (w - 1), y \in 0 .. (h - 1)}

\* the blacklists EditState passes to select: for the grass tool, and for
\* every other tool (the tool's own type is already one of the six)
GrassBlacklist == {"Water"}
BuildBlacklist == {"Water", "Forest", "Road", "Residential", "Commercial", "Industrial"}
Blacklist(name) == IF name = "grass" THEN GrassBlacklist ELSE BuildBlacklist

\* the entries of the right-click menu that name a tile
MenuTiles == {"grass", "forest", "residential", "commercial", "industrial", "road"}

\* the generated maps of Spec have at most this many cells that are not grass
MaxWild == 1

\* Map::new_generated: every cell forest, water or grass
GeneratedMaps(w, h) ==
    {m \in [Indices(w, h) -> {Cell(tile_atlas(n), InitResources, "Deselected")
                              : n \in {"forest", "water", "grass"}}] :
        Cardinality({i \in Indices(w, h) : m[i].tile.tile_type # "Grass"}) <= MaxWild}

\* City::new on a generated map, with the funds EditState::new sets
InitCity(w, h, start_funds) ==
    /\ width = w /\ height = h
    /\ tiles \in GeneratedMaps(w, h)
    /\ num_selected = 0
    /\ num_regions = <<0>>
    /\ current_time = 0
    /\ population_pool = 0
    /\ population = 0
    /\ employable = 0
    /\ earnings = 0
    /\ funds = Fix(start_funds)
    /\ day = 0

\* EditState::new: nothing pressed, the inspect tool, no menu shown
InitEdit ==
    /\ action_state = [kind |-> "Nothing"]
    /\ current_tile = "none"
    /\ menu_visible = FALSE
    /\ info_visible = FALSE

Init ==
    /\ InitCity(CityW, CityH, StartFunds)
    /\ InitEdit
    /\ file = <<>>
    /\ last = [op |-> "new"]

\* the processed day of City::update without `self.earnings = 0.0`
Tick_keeps_earnings(max_day) ==
    /\ day < max_day
    /\ day' = day + 1
    /\ current_time' = 0
    /\ \E month \in {(day + 1) % DaysPerMonth = 0} :
       /\ funds' = IF month THEN funds + earnings ELSE funds
       /\ \E order \in shuffled_indices(tiles) :
          \E r \in {run_passes(TickState(tiles, population_pool), order)} :
          \E s \in r.done :
          \E f \in settle(s, [population |-> population,
                              employable |-> employable,
                              earnings |-> earnings]) :
             /\ tiles' = s.tiles
             /\ population_pool' = f.pool
             /\ population' = f.population
             /\ employable' = f.employable
             /\ earnings' = f.earnings
    /\ UNCHANGED <<width, height, num_selected, num_regions>>

\* City::update from `self.day += 1` on: the day that starts, the monthly
\* settlement, the four passes and the totals; days are counted up to max_day
Tick(max_day) ==
    /\ day < max_day
    /\ day' = day + 1
    /\ current_time' = 0
    /\ \E month \in {(day + 1) % DaysPerMonth = 0} :
       /\ funds' = IF month THEN funds + earnings ELSE funds
       /\ \E order \in shuffled_indices(tiles) :
          \E r \in {run_passes(TickState(tiles, population_pool), order)} :
          \E s \in r.done :
          \E f \in settle(s, [population |-> population,
                              employable |-> employable,
                              earnings |-> IF month THEN 0 ELSE earnings]) :
             /\ tiles' = s.tiles
             /\ population_pool' = f.pool
             /\ population' = f.population
             /\ employable' = f.employable
             /\ earnings' = f.earnings
    /\ UNCHANGED <<width, height, num_selected, num_regions>>

\* City::update with the day counted before the early return
Update_counts_first(dt, max_day) ==
    \E t1 \in {current_time + dt} :
      IF t1 < Fix(TimePerDay)
      THEN /\ day < max_day
           /\ current_time' = t1
           /\ day' = day + 1
           /\ UNCHANGED <<mapVars, population_pool, population, employable,
                          earnings, funds>>
      ELSE Tick(max_day)

\* the processed day of City::update with the time beyond time_per_day kept
\* in current_time; t1 is current_time + dt
Tick_keeps_excess(t1, max_day) ==
    /\ day < max_day
    /\ day' = day + 1
    /\ current_time' = t1 - Fix(TimePerDay)
    /\ \E month \in {(day + 1) % DaysPerMonth = 0} :
       /\ funds' = IF month THEN funds + earnings ELSE funds
       /\ \E order \in shuffled_indices(tiles) :
          \E r \in {run_passes(TickState(tiles, population_pool), order)} :
          \E s \in r.done :
          \E f \in settle(s, [population |-> population,
                              employable |-> employable,
                              earnings |-> IF month THEN 0 ELSE earnings]) :
             /\ tiles' = s.tiles
             /\ population_pool' = f.pool
             /\ population' = f.population
             /\ employable' = f.employable
             /\ earnings' = f.earnings
    /\ UNCHANGED <<width, height, num_selected, num_regions>>

\* City::update(dt) with `self.current_time -= self.time_per_day`
Update_keeps_excess(dt, max_day) ==
    \E t1 \in {current_time + dt} :
      IF t1 < Fix(TimePerDay)
      THEN /\ current_time' = t1
           /\ UNCHANGED <<mapVars, population_pool, population, employable,
                          earnings, funds, day>>
      ELSE Tick_keeps_excess(t1, max_day)

\* City::update(dt)
Update(dt, max_day) ==
    \E t1 \in {current_time + dt} :
      IF t1 < Fix(TimePerDay)
      THEN /\ current_time' = t1
           /\ UNCHANGED <<mapVars, population_pool, population, employable,
                          earnings, funds, day>>
      ELSE Tick(max_day)

\* EditState::handle_input, MouseMoved while selecting from `start` with the
\* tool `tool`: the flags and num_selected it leaves
mouse_moved(ts, w, h, start, end, tool) ==
    select(clear_selected(ts).tiles, w, h, 0, start, end, Blacklist(tool))

\* what the caller of City::bulldoze does around the call, as EditState
\* does on a left release: nothing unless the funds cover the selection,
\* else the bulldoze and the payment.  c is [tiles, num_selected, pool, funds].
\* the purchase made whatever the funds are
purchase_on_credit(c, tool) ==
    LET total_cost == Fix(tile_atlas(tool).cost * c.num_selected)
        z == bulldoze(c.tiles, c.pool, tile_atlas(tool))
    IN  [tiles |-> z.tiles, num_selected |-> c.num_selected,
         pool |-> z.pool, funds |-> c.funds - total_cost, bought |-> TRUE]

purchase(c, tool) ==
    LET total_cost == Fix(tile_atlas(tool).cost * c.num_selected)
        z == bulldoze(c.tiles, c.pool, tile_atlas(tool))
    IN  IF c.funds >= total_cost
        THEN [tiles |-> z.tiles, num_selected |-> c.num_selected,
              pool |-> z.pool, funds |-> c.funds - total_cost, bought |-> TRUE]
        ELSE [tiles |-> c.tiles, num_selected |-> c.num_selected,
              pool |-> c.pool, funds |-> c.funds, bought |-> FALSE]

\* One edit: Map::clear_selected and Map::select of the rectangle a..b with
\* the blacklist of `tool`, City::bulldoze with that tool if the funds cover
\* it, and Map::clear_selected.  The region ids are left as they are.
Edit(a, b, tool) ==
    \E m \in {mouse_moved(tiles, width, height, a, b, tool)} :
    \E r \in {purchase([tiles |-> m.tiles, num_selected |-> m.num_selected,
                        pool |-> population_pool, funds |-> funds], tool)} :
    \E c \in {clear_selected(r.tiles)} :
       /\ tiles' = c.tiles
       /\ num_selected' = c.num_selected
       /\ population_pool' = r.pool
       /\ funds' = r.funds
       /\ UNCHANGED <<width, height, num_regions, current_time, population,
                      employable, earnings, day>>

\* City::tiles_changed
TilesChanged ==
    \E r \in {tiles_changed(tiles, width, height)} :
       /\ tiles' = r.tiles
       /\ num_regions' = <<r.regions>>
       /\ UNCHANGED <<width, height, num_selected, cityVars>>

Next ==
    \/ \E dt \in DtSamples :
         Update(dt, MaxDay) /\ UNCHANGED <<editVars, file, last>>
    \/ \E a, b \in MousePoints(width, height) :
         \E tool \in MenuTiles :
            Edit(a, b, tool) /\ UNCHANGED <<editVars, file, last>>
    \/ TilesChanged /\ UNCHANGED <<editVars, file, last>>

Spec == Init /\ [][Next]_vars

---------------------------------------------------------------------------
(* distribute_pool on its own: SpecPool                                    *)

\* the arguments distribute_pool is called with: pools below, at and above
\* 0, populations below, at and above max_pop, rates of either sign
PoolSamples == {Fix(-2), 0, Scale \div 2, Fix(1), Fix(3), Fix(5)}
PopulationSamples == {0, Scale \div 2, Fix(1), Fix(2), Fix(6)}
MaxPopSamples == {0, Fix(1), Fix(2), Fix(5)}
RateSamples == {-20000, 0, BirthRate - DeathRate, 20000}

\* a city without a grid: the state the function-level specifications
\* leave alone
InitNoCity ==
    /\ InitCity(0, 0, 0)
    /\ InitEdit
    /\ file = <<>>
    /\ last = [op |-> "new"]

\* one call of distribute_pool, recorded with its result
DistributePool(pool, pop, max_pop, change_rate) ==
    /\ last' = [op |-> "distribute_pool", pool |-> pool, population |-> pop,
                max_pop |-> max_pop, change_rate |-> change_rate,
                result |-> distribute_pool(pool, pop, max_pop, change_rate)]
    /\ UNCHANGED <<mapVars, cityVars, editVars, file>>

NextPool ==
    \E pool \in PoolSamples, pop \in PopulationSamples,
       max_pop \in MaxPopSamples, change_rate \in RateSamples :
          DistributePool(pool, pop, max_pop, change_rate)

SpecPool == InitNoCity /\ [][NextPool]_vars

---------------------------------------------------------------------------
(* Map::select on its own: SpecSelect                                      *)

\* the grid of SpecSelect
SelW == 3
SelH == 2

\* the corners select is called with: the cells and one ring around the grid
SelectPoints(w, h) == {Point(x, y) : x \in -1 .. w, y \in -1 .. h}

\* the maps of SpecSelect: grass, which no tool's blacklist holds, and
\* forest, which the building tools' blacklist holds
SelectMaps(w, h) ==
    [Indices(w, h) -> {Cell(tile_atlas(n), InitResources, "Deselected")
                       : n \in {"grass", "forest"}}]

InitSelect ==
    /\ width = SelW /\ height = SelH
    /\ tiles \in SelectMaps(SelW, SelH)
    /\ num_selected = 0
    /\ num_regions = <<0>>
    /\ current_time = 0 /\ population_pool = 0 /\ population = 0
    /\ employable = 0 /\ earnings = 0 /\ funds = 0 /\ day = 0
    /\ InitEdit
    /\ file = <<>>
    /\ last = [op |-> "new"]

\* Map::select(start, end, blacklisted) on a grid without flags
Select(start, end, blacklisted) ==
    /\ last.op # "select"
    /\ \E r \in {select(tiles, width, height, num_selected, start, end, blacklisted)} :
          /\ tiles' = r.tiles
          /\ num_selected' = r.num_selected
    /\ last' = [op |-> "select", start |-> start, end |-> end,
                blacklisted |-> blacklisted]
    /\ UNCHANGED <<width, height, num_regions, cityVars, editVars, file>>

\* Map::clear_selected
ClearSelected ==
    /\ \E c \in {clear_selected(tiles)} :
          /\ tiles' = c.tiles
          /\ num_selected' = c.num_selected
    /\ last' = [op |-> "clear_selected"]
    /\ UNCHANGED <<width, height, num_regions, cityVars, editVars, file>>

NextSelect ==
    \/ \E start, end \in SelectPoints(width, height) :
         \E blacklisted \in {GrassBlacklist, BuildBlacklist} :
            Select(start, end, blacklisted)
    \/ ClearSelected

SpecSelect == InitSelect /\ [][NextSelect]_vars

---------------------------------------------------------------------------
(* Map::find_connected_regions on its own: SpecRegions                     *)

\* the grid of SpecRegions
RegW == 3
RegH == 3

\* the maps of SpecRegions: grass, which is no member of a region, and
\* road, which is one
RegionMaps(w, h) ==
    [Indices(w, h) -> {Cell(tile_atlas(n), InitResources, "Deselected")
                       : n \in {"grass", "road"}}]

InitRegions ==
    /\ width = RegW /\ height = RegH
    /\ tiles \in RegionMaps(RegW, RegH)
    /\ num_selected = 0
    /\ num_regions = <<0>>
    /\ current_time = 0 /\ population_pool = 0 /\ population = 0
    /\ employable = 0 /\ earnings = 0 /\ funds = 0 /\ day = 0
    /\ InitEdit
    /\ file = <<>>
    /\ last = [op |-> "new"]

\* Map::find_connected_regions(is a region member, 0)
FindRegions ==
    /\ \E r \in {find_connected_regions(tiles, width, height, RegionMembers, 0)} :
          /\ tiles' = r.tiles
          /\ num_regions' = <<r.regions>>
    /\ last' = [op |-> "find_connected_regions"]
    /\ UNCHANGED <<width, height, num_selected, cityVars, editVars, file>>

\* what City::bulldoze does to one cell: a new tile of the atlas, whose
\* region id is 0 while the other cells keep theirs.  One cell is replaced
\* between two calls of find_connected_regions.
Place(i, name) ==
    /\ last.op # "place"
    /\ tiles' = [tiles EXCEPT ![i].tile = tile_atlas(name)]
    /\ last' = [op |-> "place"]
    /\ UNCHANGED <<width, height, num_selected, num_regions, cityVars,
                   editVars, file>>

NextRegions ==
    \/ FindRegions
    \/ \E i \in DOMAIN tiles : \E name \in {"grass", "road"} : Place(i, name)

SpecRegions == InitRegions /\ [][NextRegions]_vars

---------------------------------------------------------------------------
(* Map::find_connected_regions on maps that carry labels: SpecRelabel      *)

\* the grid of SpecRelabel
RelW == 3
RelH == 2
\* the largest label a cell carries at the start
MaxLabel == 2

\* grass and road cells with any label
RelabelCells ==
    {Cell([tile_atlas(n) EXCEPT !.regions = <<l>>], InitResources, "Deselected")
     : n \in {"grass", "road"}, l \in 0 .. MaxLabel}

InitRelabel ==
    /\ width = RelW /\ height = RelH
    /\ tiles \in [Indices(RelW, RelH) -> RelabelCells]
    /\ num_selected = 0
    /\ num_regions = <<0>>
    /\ current_time = 0 /\ population_pool = 0 /\ population = 0
    /\ employable = 0 /\ earnings = 0 /\ funds = 0 /\ day = 0
    /\ InitEdit
    /\ file = <<>>
    /\ last = [op |-> "new"]

\* Map::find_connected_regions(is a region member, 0); last keeps the tiles
\* and the count the call found
Relabel ==
    /\ \E r \in {find_connected_regions(tiles, width, height, RegionMembers, 0)} :
          /\ tiles' = r.tiles
          /\ num_regions' = <<r.regions>>
    /\ last' = [op |-> "find_connected_regions", tiles |-> tiles,
                num_regions |-> num_regions]
    /\ UNCHANGED <<width, height, num_selected, cityVars, editVars, file>>

NextRelabel == Relabel

SpecRelabel == InitRelabel /\ [][NextRelabel]_vars

---------------------------------------------------------------------------
(* Map::find_connected_regions call by call: SpecSearch.  last holds the   *)
(* position of the run: the next raster index i, the next unused label     *)
(* `regions`, the calls of depth_first_search that are still to be made    *)
(* (the first one next), and how often each label has been written         *)

\* a call depth_first_search(whitelisted, (x, y), label, 0)
SearchCall(x, y, label) == [x |-> x, y |-> y, label |-> label]

\* any membership predicate over the tile types of the map, on maps whose
\* cells all carry the same label
InitSearch ==
    /\ width = RelW /\ height = RelH
    /\ \E m \in RegionMaps(RelW, RelH) : \E l \in 0 .. MaxLabel :
          tiles = [i \in DOMAIN m |-> [m[i] EXCEPT !.tile.regions = <<l>>]]
    /\ num_selected = 0
    /\ num_regions = <<0>>
    /\ current_time = 0 /\ population_pool = 0 /\ population = 0
    /\ employable = 0 /\ earnings = 0 /\ funds = 0 /\ day = 0
    /\ InitEdit
    /\ file = <<>>
    /\ \E whitelisted \in SUBSET {"Grass", "Road"} :
          last = [op |-> "new", whitelisted |-> whitelisted]

\* find_connected_regions, up to the raster scan: every label is set to 0
SearchClear ==
    /\ last.op = "new"
    /\ tiles' = [i \in DOMAIN tiles |-> [tiles[i] EXCEPT !.tile.regions[1] = 0]]
    /\ last' = [op |-> "scan", whitelisted |-> last.whitelisted, i |-> 0,
                regions |-> 1, stack |-> <<>>,
                writes |-> [i \in DOMAIN tiles |-> 0]]
    /\ UNCHANGED <<width, height, num_selected, num_regions, cityVars,
                   editVars, file>>

\* find_connected_regions, one cell of the raster scan
SearchScan ==
    /\ last.op = "scan"
    /\ last.stack = <<>>
    /\ last.i < width * height
    /\ last' = IF tiles[last.i].tile.regions[1] = 0
                  /\ tiles[last.i].tile.tile_type \in last.whitelisted
               THEN [last EXCEPT !.i = @ + 1, !.regions = @ + 1,
                                 !.stack = <<SearchCall(last.i % width,
                                                        last.i \div width,
                                                        last.regions)>>]
               ELSE [last EXCEPT !.i = @ + 1]
    /\ UNCHANGED <<mapVars, cityVars, editVars, file>>

\* depth_first_search entered for a cell that may carry a label already:
\* without `if tile.regions[region_type] != 0 { return }`
SearchVisit_relabels ==
    /\ last.op = "scan"
    /\ last.stack # <<>>
    /\ \E c \in {Head(last.stack)} :
       \E i \in {c.y * width + c.x} :
          IF c.x < 0 \/ c.x >= width \/ c.y < 0 \/ c.y >= height
          THEN /\ last' = [last EXCEPT !.stack = Tail(@)]
               /\ UNCHANGED tiles
          ELSE IF tiles[i].tile.tile_type \in last.whitelisted
          THEN /\ tiles' = [tiles EXCEPT ![i].tile.regions[1] = c.label]
               /\ last' = [last EXCEPT
                     !.writes[i] = @ + 1,
                     !.stack = <<SearchCall(c.x - 1, c.y, c.label),
                                 SearchCall(c.x, c.y + 1, c.label),
                                 SearchCall(c.x + 1, c.y, c.label),
                                 SearchCall(c.x, c.y - 1, c.label)>>
                               \o Tail(@)]
          ELSE /\ last' = [last EXCEPT !.stack = Tail(@)]
               /\ UNCHANGED tiles
    /\ UNCHANGED <<width, height, num_selected, num_regions, cityVars,
                   editVars, file>>

\* depth_first_search, one call: return outside the map and at a labelled
\* cell, label a member and call for west, south, east and north
SearchVisit ==
    /\ last.op = "scan"
    /\ last.stack # <<>>
    /\ \E c \in {Head(last.stack)} :
       \E i \in {c.y * width + c.x} :
          IF c.x < 0 \/ c.x >= width \/ c.y < 0 \/ c.y >= height
          THEN /\ last' = [last EXCEPT !.stack = Tail(@)]
               /\ UNCHANGED tiles
          ELSE IF tiles[i].tile.regions[1] # 0
          THEN /\ last' = [last EXCEPT !.stack = Tail(@)]
               /\ UNCHANGED tiles
          ELSE IF tiles[i].tile.tile_type \in last.whitelisted
          THEN /\ tiles' = [tiles EXCEPT ![i].tile.regions[1] = c.label]
               /\ last' = [last EXCEPT
                     !.writes[i] = @ + 1,
                     !.stack = <<SearchCall(c.x - 1, c.y, c.label),
                                 SearchCall(c.x, c.y + 1, c.label),
                                 SearchCall(c.x + 1, c.y, c.label),
                                 SearchCall(c.x, c.y - 1, c.label)>>
                               \o Tail(@)]
          ELSE /\ last' = [last EXCEPT !.stack = Tail(@)]
               /\ UNCHANGED tiles
    /\ UNCHANGED <<width, height, num_selected, num_regions, cityVars,
                   editVars, file>>

\* find_connected_regions, after the scan: the count is stored
SearchDone ==
    /\ last.op = "scan"
    /\ last.stack = <<>>
    /\ last.i = width * height
    /\ num_regions' = <<last.regions>>
    /\ last' = [last EXCEPT !.op = "find_connected_regions"]
    /\ UNCHANGED <<width, height, tiles, num_selected, cityVars, editVars,
                   file>>

NextSearch ==
    \/ SearchClear
    \/ SearchScan
    \/ SearchVisit
    \/ SearchDone

\* a call that has started runs on: nothing else is scheduled meanwhile
SpecSearch == InitSearch /\ [][NextSearch]_vars /\ WF_vars(NextSearch)

---------------------------------------------------------------------------
(* The map file (map.rs, load and save).  A file is the sequence of its    *)
(* bytes.                                                                  *)

\* write_be_u32: four bytes, the most significant first
be_u32(n) ==
    <<(n \div 16777216) % 256, (n \div 65536) % 256, (n \div 256) % 256, n % 256>>

\* write_be_f64: eight bytes that determine the number; the model writes the
\* fixed-point integer of a population, which is never negative
be_f64(x) == be_u32(0) \o be_u32(x)

\* read_u8 at position pos (from 1): [ok, val, pos], ok = FALSE at the end
\* of the file
read_u8(bytes, pos) ==
    IF pos > Len(bytes) THEN [ok |-> FALSE, val |-> 0, pos |-> pos]
    ELSE [ok |-> TRUE, val |-> bytes[pos], pos |-> pos + 1]

\* read_be_u32 at position pos
read_be_u32(bytes, pos) ==
    IF pos + 3 > Len(bytes) THEN [ok |-> FALSE, val |-> 0, pos |-> pos]
    ELSE [ok |-> TRUE,
          val |-> bytes[pos] * 16777216 + bytes[pos + 1] * 65536
                  + bytes[pos + 2] * 256 + bytes[pos + 3],
          pos |-> pos + 4]

\* read_be_f64 at position pos
read_be_f64(bytes, pos) ==
    IF pos + 7 > Len(bytes) THEN [ok |-> FALSE, val |-> 0, pos |-> pos]
    ELSE [ok |-> TRUE, val |-> read_be_u32(bytes, pos + 4).val, pos |-> pos + 8]

\* the number Map::save writes for a tile type
kind_number(tile_type) ==
    CASE tile_type = "Void" -> 0
      [] tile_type = "Grass" -> 1
      [] tile_type = "Forest" -> 2
      [] tile_type = "Water" -> 3
      [] tile_type = "Residential" -> 4
      [] tile_type = "Commercial" -> 5
      [] tile_type = "Industrial" -> 6
      [] tile_type = "Road" -> 7

RECURSIVE regions_bytes(_, _)
\* the region ids of a tile from the k-th on, four bytes each
regions_bytes(regions, k) ==
    IF k > Len(regions) THEN <<>>
    ELSE be_u32(regions[k]) \o regions_bytes(regions, k + 1)

\* what Map::save writes for one tile
tile_bytes(tile) ==
    <<kind_number(tile.tile_type)>>
    \o (IF tile.tile_type \in Zoned THEN be_f64(tile.population) ELSE <<>>)
    \o (IF tile.tile_type = "Industrial"
        THEN be_u32(tile.production) \o be_u32(tile.stored_goods) ELSE <<>>)
    \o be_u32(tile.variant)
    \o be_u32(Len(tile.regions))
    \o regions_bytes(tile.regions, 1)

RECURSIVE tiles_bytes(_, _)
\* what Map::save writes for the tiles from index i on
tiles_bytes(ts, i) ==
    IF i \notin DOMAIN ts THEN <<>>
    ELSE tile_bytes(ts[i].tile) \o tiles_bytes(ts, i + 1)

\* Map::save: the bytes of the file
save(w, h, ts) == be_u32(w) \o be_u32(h) \o tiles_bytes(ts, 0)

\* the atlas entry Map::load clones for a kind number, "" for none
kind_name(n) ==
    CASE n \in {0, 1} -> "grass"
      [] n = 2 -> "forest"
      [] n = 3 -> "water"
      [] n = 4 -> "residential"
      [] n = 5 -> "commercial"
      [] n = 6 -> "industrial"
      [] n = 7 -> "road"
      [] OTHER -> ""

RECURSIVE read_regions(_, _, _, _)
\* the loop that reads `count` region ids: [ok, val, pos]
read_regions(bytes, pos, count, regions) ==
    IF count = 0 THEN [ok |-> TRUE, val |-> regions, pos |-> pos]
    ELSE LET r == read_be_u32(bytes, pos)
         IN  IF ~r.ok THEN [ok |-> FALSE, val |-> regions, pos |-> pos]
             ELSE read_regions(bytes, r.pos, count - 1, Append(regions, r.val))

\* one turn of the loop of Map::load: the tile read at pos, [ok, val, pos]
read_tile(bytes, pos) ==
    LET failed == [ok |-> FALSE, val |-> VoidTile, pos |-> pos]
        kind == read_u8(bytes, pos)
        name == kind_name(kind.val)
        people == read_be_f64(bytes, kind.pos)
        produced == read_be_u32(bytes, people.pos)
        stored == read_be_u32(bytes, produced.pos)
        fresh == tile_atlas(name)
        \* the tile and the position after the fields its kind carries
        body == IF name \in {"residential", "commercial"}
                THEN [ok |-> people.ok,
                      val |-> [fresh EXCEPT !.population = people.val],
                      pos |-> people.pos]
                ELSE IF name = "industrial"
                THEN [ok |-> people.ok /\ produced.ok /\ stored.ok,
                      val |-> [fresh EXCEPT !.population = people.val,
                                            !.production = produced.val,
                                            !.stored_goods = stored.val],
                      pos |-> stored.pos]
                ELSE [ok |-> TRUE, val |-> fresh, pos |-> kind.pos]
        variant == read_be_u32(bytes, body.pos)
        count == read_be_u32(bytes, variant.pos)
        regions == read_regions(bytes, count.pos, count.val, <<>>)
    IN  IF ~kind.ok \/ name = "" THEN failed
        ELSE IF ~body.ok \/ ~variant.ok \/ ~count.ok \/ ~regions.ok THEN failed
        ELSE [ok |-> TRUE,
              val |-> [body.val EXCEPT !.variant = variant.val,
                                       !.regions = regions.val],
              pos |-> regions.pos]

RECURSIVE read_tiles(_, _, _, _)
\* the loop of Map::load over width * height tiles: [ok, val], val the
\* sequence of the cells pushed
read_tiles(bytes, pos, count, cells) ==
    IF count = 0 THEN [ok |-> TRUE, val |-> cells]
    ELSE LET t == read_tile(bytes, pos)
         IN  IF ~t.ok THEN [ok |-> FALSE, val |-> cells]
             ELSE read_tiles(bytes, t.pos, count - 1,
                             Append(cells, Cell(t.val, InitResources, "Deselected")))

\* Map::load on a map with the fields w, h and ts: [ok, width, height, tiles]
load(bytes, w, h, ts) ==
    LET new_width == read_be_u32(bytes, 1)
        new_height == read_be_u32(bytes, 5)
        cells == read_tiles(bytes, 9, new_width.val * new_height.val, <<>>)
    IN  IF ~new_width.ok
        THEN [ok |-> FALSE, width |-> w, height |-> h, tiles |-> ts]
        ELSE IF ~new_height.ok
        THEN [ok |-> FALSE, width |-> new_width.val, height |-> h, tiles |-> ts]
        ELSE IF ~cells.ok
        THEN [ok |-> FALSE, width |-> new_width.val, height |-> new_height.val,
              tiles |-> ts]
        ELSE [ok |-> TRUE, width |-> new_width.val, height |-> new_height.val,
              tiles |-> [i \in 0 .. (Len(cells.val) - 1) |-> cells.val[i + 1]]]

---------------------------------------------------------------------------
(* Map::save and Map::load on their own: SpecFile                          *)

\* the tiles of the maps of SpecFile: one of type Void, a tile of the atlas
\* as it is placed, a home and an industry as ticks and tiles_changed leave
\* them
FileTiles ==
    {VoidTile,
     tile_atlas("grass"),
     [tile_atlas("residential") EXCEPT !.population = Scale \div 2,
                                       !.variant = 1, !.regions = <<1>>],
     [tile_atlas("industrial") EXCEPT !.population = Fix(1), !.production = 2,
                                      !.stored_goods = 1, !.regions = <<2>>]}

\* the maps of SpecFile: [width, height, tiles] of one cell and of two
FileMaps ==
    {[width |-> w, height |-> 1, tiles |-> ts] :
        w \in {1}, ts \in [Indices(1, 1) -> {Cell(t, InitResources, "Deselected")
                                             : t \in FileTiles}]}
    \cup
    {[width |-> w, height |-> 1, tiles |-> ts] :
        w \in {2}, ts \in [Indices(2, 1) -> {Cell(t, InitResources, "Deselected")
                                             : t \in FileTiles}]}

\* the numbers a damaged file has in the place of a tile kind
BadKinds == {8, 255}

\* the files cut short of bytes
Truncations(bytes) == {SubSeq(bytes, 1, n) : n \in 0 .. (Len(bytes) - 1)}

\* the files of a map m with the kind of one tile out of range
WrongKinds(m) ==
    {be_u32(m.width) \o be_u32(m.height)
       \o tiles_bytes([i \in {j \in DOMAIN m.tiles : j < k} |-> m.tiles[i]], 0)
       \o <<v>> \o Tail(tile_bytes(m.tiles[k].tile))
       \o tiles_bytes([i \in DOMAIN m.tiles |-> m.tiles[i]], k + 1)
     : k \in DOMAIN m.tiles, v \in BadKinds}

\* the files Map::load may find: one that Map::save wrote for some map, one
\* cut short, one with a tile kind out of range
Files ==
    UNION {{save(m.width, m.height, m.tiles)}
           \cup Truncations(save(m.width, m.height, m.tiles))
           \cup WrongKinds(m) : m \in FileMaps}

InitFile ==
    /\ \E m \in FileMaps :
          width = m.width /\ height = m.height /\ tiles = m.tiles
    /\ file \in Files
    /\ num_selected = 0
    /\ num_regions = <<0>>
    /\ current_time = 0 /\ population_pool = 0 /\ population = 0
    /\ employable = 0 /\ earnings = 0 /\ funds = 0 /\ day = 0
    /\ InitEdit
    /\ last = [op |-> "new"]

\* Map::save
Save ==
    /\ file' = save(width, height, tiles)
    /\ last' = [op |-> "save"]
    /\ UNCHANGED <<mapVars, cityVars, editVars>>

\* Map::load; last keeps the map it was called on, whether it returned Ok
\* and whether the file is the one the call before it saved
Load ==
    /\ \E r \in {load(file, width, height, tiles)} :
          /\ width' = r.width
          /\ height' = r.height
          /\ tiles' = r.tiles
          /\ last' = [op |-> "load", ok |-> r.ok, saved |-> last.op = "save",
                      width |-> width, height |-> height, tiles |-> tiles]
    /\ UNCHANGED <<num_selected, num_regions, cityVars, editVars, file>>

NextFile ==
    \/ Save
    \/ Load

SpecFile == InitFile /\ [][NextFile]_vars

---------------------------------------------------------------------------
(* The game loop on the edit state, one action per event: SpecEdit         *)

\* the grid of SpecEdit
EditW == 2
EditH == 1
\* update stops starting new days at this day
EditMaxDay == 1
\* the funds of the new city: enough for three cells
EditFunds == 3

\* where the mouse can be: over a cell, or left of the grid
EditPoints(w, h) == {Point(x, y) : x \in -1 .. (w - 1), y \in 0 .. (h - 1)}

\* what right_click_menu.activate_at can return: an entry, or None
MenuEntries == {"inspect", "miss"} \cup MenuTiles

\* Map::tile_at: whether there is a tile at pos
tile_at(w, h, pos) == pos.x >= 0 /\ pos.x < w /\ pos.y >= 0 /\ pos.y < h

\* the left release while selecting, with City::tiles_changed left out
left_released_keeps_regions(c, w, h, tool) ==
    LET p == purchase(c, tool)
        d == clear_selected(p.tiles)
    IN  [tiles |-> d.tiles, num_selected |-> d.num_selected,
         regions |-> c.regions, pool |-> p.pool, funds |-> p.funds]

\* EditState::handle_input, the left release while selecting with a tool:
\* if the funds cover the selection City::bulldoze, the payment and
\* City::tiles_changed; then Map::clear_selected.
\* c is [tiles, num_selected, regions, pool, funds].
left_released(c, w, h, tool) ==
    LET p == purchase(c, tool)
        t == IF p.bought THEN tiles_changed(p.tiles, w, h)
             ELSE [tiles |-> p.tiles, regions |-> c.regions]
        d == clear_selected(t.tiles)
    IN  [tiles |-> d.tiles, num_selected |-> d.num_selected,
         regions |-> t.regions, pool |-> p.pool, funds |-> p.funds]

InitEditor ==
    /\ InitCity(EditW, EditH, EditFunds)
    /\ InitEdit
    /\ file = <<>>
    /\ last = [op |-> "new"]

\* MouseMoved with the mouse over pos
MouseMoved(pos) ==
    /\ IF action_state.kind = "Selecting" /\ current_tile # "none"
       THEN \E m \in {mouse_moved(tiles, width, height, action_state.start,
                                  pos, current_tile)} :
               /\ tiles' = m.tiles
               /\ num_selected' = m.num_selected
       ELSE UNCHANGED <<tiles, num_selected>>
    /\ UNCHANGED <<width, height, num_regions, cityVars, editVars, file, last>>

\* MouseButtonPressed, middle button
MiddlePress ==
    /\ IF action_state.kind = "Panning"
       THEN UNCHANGED editVars
       ELSE /\ action_state' = [kind |-> "Panning"]
            /\ menu_visible' = FALSE
            /\ info_visible' = FALSE
            /\ UNCHANGED current_tile
    /\ UNCHANGED <<mapVars, cityVars, file, last>>

\* MouseButtonPressed, left button, with the mouse over pos in the map and
\* over `entry` in the menu
LeftPress(pos, entry) ==
    /\ IF menu_visible
       THEN /\ current_tile' = IF entry = "inspect" THEN "none"
                               ELSE IF entry \in MenuTiles THEN entry
                               ELSE current_tile
            /\ menu_visible' = FALSE
            /\ UNCHANGED <<action_state, info_visible>>
       ELSE IF action_state.kind = "Selecting"
       THEN UNCHANGED editVars
       ELSE IF current_tile # "none"
       THEN /\ action_state' = [kind |-> "Selecting", start |-> pos]
            /\ UNCHANGED <<current_tile, menu_visible, info_visible>>
       ELSE /\ info_visible' = tile_at(width, height, pos)
            /\ UNCHANGED <<action_state, current_tile, menu_visible>>
    /\ UNCHANGED <<mapVars, cityVars, file, last>>

\* MouseButtonPressed, right button
RightPress ==
    /\ IF action_state.kind = "Selecting"
       THEN /\ action_state' = [kind |-> "Nothing"]
            /\ \E c \in {clear_selected(tiles)} :
                  /\ tiles' = c.tiles
                  /\ num_selected' = c.num_selected
            /\ UNCHANGED <<current_tile, menu_visible, info_visible>>
       ELSE /\ IF ~info_visible
               THEN menu_visible' = TRUE /\ UNCHANGED info_visible
               ELSE info_visible' = FALSE /\ UNCHANGED menu_visible
            /\ UNCHANGED <<action_state, current_tile, tiles, num_selected>>
    /\ UNCHANGED <<width, height, num_regions, cityVars, file, last>>

\* MouseButtonReleased, middle button
MiddleRelease ==
    /\ action_state' = [kind |-> "Nothing"]
    /\ UNCHANGED <<current_tile, menu_visible, info_visible, mapVars, cityVars,
                   file, last>>

\* MouseButtonReleased, left button
LeftRelease ==
    /\ IF action_state.kind = "Selecting" /\ current_tile # "none"
       THEN \E r \in {left_released([tiles |-> tiles,
                                     num_selected |-> num_selected,
                                     regions |-> num_regions[1],
                                     pool |-> population_pool,
                                     funds |-> funds],
                                    width, height, current_tile)} :
               /\ tiles' = r.tiles
               /\ num_selected' = r.num_selected
               /\ num_regions' = <<r.regions>>
               /\ population_pool' = r.pool
               /\ funds' = r.funds
               /\ action_state' = [kind |-> "Nothing"]
       ELSE UNCHANGED <<tiles, num_selected, num_regions, population_pool,
                        funds, action_state>>
    /\ UNCHANGED <<width, height, current_time, population, employable,
                   earnings, day, current_tile, menu_visible, info_visible,
                   file, last>>

\* EditState::update(dt), the call after handle_input in the game loop
EditUpdate(dt) ==
    /\ Update(dt, EditMaxDay)
    /\ UNCHANGED <<editVars, file, last>>

NextEdit ==
    \/ \E pos \in EditPoints(width, height) : MouseMoved(pos)
    \/ MiddlePress
    \/ \E pos \in EditPoints(width, height) : \E entry \in MenuEntries :
          LeftPress(pos, entry)
    \/ RightPress
    \/ MiddleRelease
    \/ LeftRelease
    \/ \E dt \in DtSamples : EditUpdate(dt)

SpecEdit == InitEditor /\ [][NextEdit]_vars

---------------------------------------------------------------------------
(* City::bulldoze on its own: SpecBulldoze                                 *)

\* the grid of SpecBulldoze
BullW == 3
BullH == 1

\* City::get_unemployed: the sum of get_unemployed over the tiles
City_get_unemployed(ts) ==
    SumSet({i \in DOMAIN ts : get_unemployed(ts[i].tile) > 0},
           [i \in DOMAIN ts |-> get_unemployed(ts[i].tile)])

\* the people housed in the Residential cells of ts that are in S
Residents(ts, S) ==
    SumSet({i \in S : ts[i].tile.tile_type = "Residential"},
           [i \in DOMAIN ts |-> ts[i].tile.population])

\* the tiles City::bulldoze finds: grass, and zones with the people ticks
\* have moved in (no home records its employees)
BulldozeTiles ==
    {tile_atlas("grass"),
     [tile_atlas("residential") EXCEPT !.population = Scale \div 2],
     [tile_atlas("residential") EXCEPT !.population = Fix(1)],
     [tile_atlas("commercial") EXCEPT !.population = Fix(1)],
     [tile_atlas("industrial") EXCEPT !.population = Fix(1)]}

\* the cells of these tiles: the resources kept or used up, any flag
BulldozeCells ==
    {Cell(t, r, f) : t \in BulldozeTiles, r \in {0, InitResources},
                     f \in {"Deselected", "Selected", "Invalid"}}

\* the people without a home before the call
BulldozePools == {0, Fix(2)}

InitBulldoze ==
    /\ width = BullW /\ height = BullH
    /\ \E m \in [Indices(BullW, BullH) -> BulldozeCells] :
       \E r \in {tiles_changed(m, BullW, BullH)} :
          /\ tiles = r.tiles
          /\ num_regions = <<r.regions>>
          /\ num_selected = Cardinality(selected(m))
    /\ population_pool \in BulldozePools
    /\ current_time = 0 /\ population = 0 /\ employable = 0
    /\ earnings = 0 /\ funds = 0 /\ day = 0
    /\ InitEdit
    /\ file = <<>>
    /\ last = [op |-> "new"]

\* City::bulldoze(new_tile) with the tile atlas' tile of the name `tool`;
\* last keeps the tiles and the pool it was called on
Bulldoze(tool) ==
    /\ last.op # "bulldoze"
    /\ \E r \in {bulldoze(tiles, population_pool, tile_atlas(tool))} :
          /\ tiles' = r.tiles
          /\ population_pool' = r.pool
    /\ last' = [op |-> "bulldoze", tool |-> tool, tiles |-> tiles,
                pool |-> population_pool]
    /\ UNCHANGED <<width, height, num_selected, num_regions, current_time,
                   population, employable, earnings, funds, day, editVars,
                   file>>

NextBulldoze ==
    \E tool \in MenuTiles : Bulldoze(tool)

SpecBulldoze == InitBulldoze /\ [][NextBulldoze]_vars

---------------------------------------------------------------------------
(* One day of a city that has been running: SpecTick                       *)

\* the grid of SpecTick
TickW == 3
TickH == 1
\* the day the sampled cities have reached, and the days update processes
\* after it
TickStartDay == 1
TickDays == 1
\* the funds of the sampled cities: enough for one cell
TickFunds == 1

\* the cells of a city that has been running: grass and zones with people,
\* one home grown to the last level and full, one industry with goods; the
\* resources are untouched, but for the industry, which has one left or
\* none.  No industry holds production when a day starts: each industry
\* adds at most one unit in a day, and the manufacture pass of that day
\* has every industry take a unit while its region holds one.
TickCells ==
    {Cell(t, InitResources, "Deselected") :
        t \in {tile_atlas("grass"),
               [tile_atlas("residential") EXCEPT !.population = Fix(1)],
               [tile_atlas("residential") EXCEPT
                   !.variant = MaxLevels,
                   !.population = Fix(MaxPopPerLevel * (MaxLevels + 1))],
               [tile_atlas("commercial") EXCEPT !.population = Fix(1)]}}
    \cup
    {Cell([tile_atlas("industrial") EXCEPT !.population = Fix(1),
                                           !.stored_goods = 1],
          r, "Deselected") : r \in {0, 1}}

\* the people without a home
TickPools == {0, Fix(3)}

InitTick ==
    /\ width = TickW /\ height = TickH
    /\ \E m \in [Indices(TickW, TickH) -> TickCells] :
       \E r \in {tiles_changed(m, TickW, TickH)} :
          /\ tiles = r.tiles
          /\ num_regions = <<r.regions>>
    /\ num_selected = 0
    /\ population_pool \in TickPools
    /\ population = population_pool + Residents(tiles, DOMAIN tiles)
    /\ employable = 0
    /\ current_time = 0
    /\ earnings = 0
    /\ funds = Fix(TickFunds)
    /\ day = TickStartDay
    /\ InitEdit
    /\ file = <<>>
    /\ last = [op |-> "new"]

\* EditState::handle_input, a selection of the rectangle a..b with the tool
\* `tool` from the first MouseMoved to the left release
Build(a, b, tool) ==
    \E m \in {mouse_moved(tiles, width, height, a, b, tool)} :
    \E r \in {left_released([tiles |-> m.tiles, num_selected |-> m.num_selected,
                             regions |-> num_regions[1],
                             pool |-> population_pool, funds |-> funds],
                            width, height, tool)} :
       /\ tiles' = r.tiles
       /\ num_selected' = r.num_selected
       /\ num_regions' = <<r.regions>>
       /\ population_pool' = r.pool
       /\ funds' = r.funds
       /\ UNCHANGED <<width, height, current_time, population,
                      employable, earnings, day, editVars, file, last>>

NextTick ==
    \/ \E dt \in DtSamples :
          Update(dt, TickStartDay + TickDays) /\ UNCHANGED <<editVars, file, last>>
    \/ \E a \in MousePoints(width, height) : Build(a, a, "grass")

SpecTick == InitTick /\ [][NextTick]_vars

---------------------------------------------------------------------------
(* One day of a city whose zones have room for more than one intake:       *)
(* SpecIntake                                                              *)

\* the grid of SpecIntake
IntakeW == 3
IntakeH == 1
\* max_pop_per_level of the zones of SpecIntake: room for two intakes of 4
IntakeCap == 10
\* the day the sampled cities have reached, and the days processed after it
IntakeStartDay == 1
IntakeDays == 1

\* a zone of the catalogue with room for IntakeCap people per level
intake_tile(name, people) ==
    [tile_atlas(name) EXCEPT !.max_pop_per_level = IntakeCap,
                             !.population = people]

\* grass, an empty and a full home, work places without people, and
\* industries with people that have one resource left or none
IntakeCells ==
    {Cell(t, InitResources, "Deselected") :
        t \in {tile_atlas("grass"),
               intake_tile("residential", 0),
               intake_tile("residential", Fix(IntakeCap)),
               intake_tile("commercial", 0),
               intake_tile("industrial", 0)}}
    \cup {Cell(intake_tile("industrial", Fix(1)), r, "Deselected") : r \in {0, 1}}

\* the people without a home
IntakePools == {0, Fix(6)}

InitIntake ==
    /\ width = IntakeW /\ height = IntakeH
    /\ \E m \in [Indices(IntakeW, IntakeH) -> IntakeCells] :
       \E r \in {tiles_changed(m, IntakeW, IntakeH)} :
          /\ tiles = r.tiles
          /\ num_regions = <<r.regions>>
    /\ num_selected = 0
    /\ population_pool \in IntakePools
    /\ population = population_pool + Residents(tiles, DOMAIN tiles)
    /\ employable = 0
    /\ current_time = 0
    /\ earnings = 0
    /\ funds = 0
    /\ day = IntakeStartDay
    /\ InitEdit
    /\ file = <<>>
    /\ last = [op |-> "new"]

\* City::update, the employment distribution pass at the Industrial cell
\* `index`, with the unemployed listed in any order; last keeps the tiles
\* the step found
Employ(index) ==
    /\ last.op = "new"
    /\ day = IntakeStartDay
    /\ tiles[index].tile.tile_type = "Industrial"
    /\ \E order \in shuffled_indices(tiles) :
       \E s0 \in {with_unemployed(TickState(tiles, population_pool), order)} :
       \E s \in employment_step(s0, index) :
          tiles' = s.tiles
    /\ last' = [op |-> "employment", index |-> index, tiles |-> tiles]
    /\ UNCHANGED <<width, height, num_selected, num_regions, cityVars,
                   editVars, file>>

NextIntake ==
    \/ \E dt \in DtSamples :
          /\ last.op = "new"
          /\ Update(dt, IntakeStartDay + IntakeDays)
          /\ UNCHANGED <<editVars, file, last>>
    \/ \E index \in DOMAIN tiles : Employ(index)

SpecIntake == InitIntake /\ [][NextIntake]_vars

---------------------------------------------------------------------------
(* The days around the end of a month: SpecMonth                           *)

\* the grid of SpecMonth
MonthW == 2
MonthH == 1
\* the day SpecMonth starts at, and the number of days it processes: the
\* day before the settlement, the day of the settlement and the day after
MonthStartDay == 28
MonthDays == 3
\* the funds at the start, in units of money
MonthFunds == 1

\* the cells of SpecMonth
MonthCells ==
    {Cell(t, InitResources, "Deselected") :
        t \in {tile_atlas("grass"),
               [tile_atlas("residential") EXCEPT !.population = Fix(1)],
               [tile_atlas("commercial") EXCEPT !.population = Fix(1)],
               [tile_atlas("industrial") EXCEPT !.population = Fix(1),
                                                !.stored_goods = 1]}}

\* the earnings of the month so far
MonthEarnings == {0, Fix(2)}

InitMonth ==
    /\ width = MonthW /\ height = MonthH
    /\ \E m \in [Indices(MonthW, MonthH) -> MonthCells] :
       \E r \in {tiles_changed(m, MonthW, MonthH)} :
          /\ tiles = r.tiles
          /\ num_regions = <<r.regions>>
    /\ num_selected = 0
    /\ population_pool = 0
    /\ population = Residents(tiles, DOMAIN tiles)
    /\ employable = 0
    /\ current_time = 0
    /\ earnings \in MonthEarnings
    /\ funds = Fix(MonthFunds)
    /\ day = MonthStartDay
    /\ InitEdit
    /\ file = <<>>
    /\ last = [op |-> "new"]

NextMonth ==
    \E dt \in DtSamples :
       /\ Update(dt, MonthStartDay + MonthDays)
       /\ UNCHANGED <<editVars, file, last>>

SpecMonth == InitMonth /\ [][NextMonth]_vars

---------------------------------------------------------------------------
(* The manufacture and goods passes, one index at a time: SpecTrade        *)

\* the grid of SpecTrade: room for a region of two cells and another one
TradeW == 4
TradeH == 1

\* the tiles of SpecTrade: grass, a road, a home with people, shops and
\* industries of both levels, the industries with and without production
\* and goods
TradeTiles ==
    {tile_atlas("grass"), tile_atlas("road"),
     [tile_atlas("residential") EXCEPT !.population = Fix(1)]}
    \cup {[tile_atlas("commercial") EXCEPT !.population = Fix(1), !.variant = v]
          : v \in 0 .. MaxLevels}
    \cup {[tile_atlas("industrial") EXCEPT !.population = Fix(1), !.variant = v,
                                           !.production = p, !.stored_goods = g]
          : v \in 0 .. MaxLevels, p \in {0, 1}, g \in {0, 1, 2}}

\* a city whose regions are up to date
InitTrade ==
    /\ width = TradeW /\ height = TradeH
    /\ \E m \in [Indices(TradeW, TradeH) ->
                   {Cell(t, InitResources - 1, "Deselected") : t \in TradeTiles}] :
       \E r \in {tiles_changed(m, TradeW, TradeH)} :
          /\ tiles = r.tiles
          /\ num_regions = <<r.regions>>
    /\ num_selected = 0
    /\ population_pool = 0
    /\ population = Residents(tiles, DOMAIN tiles)
    /\ employable = 0
    /\ current_time = 0
    /\ earnings = 0
    /\ funds = 0
    /\ day = 1
    /\ InitEdit
    /\ file = <<>>
    /\ last = [op |-> "new"]

\* City::update, the manufacture pass at the Industrial cell `index`; last
\* keeps the tiles the step found
Manufacture(index) ==
    /\ last.op = "new"
    /\ tiles[index].tile.tile_type = "Industrial"
    /\ \E s \in manufacture_step(TickState(tiles, population_pool), index) :
          tiles' = s.tiles
    /\ last' = [op |-> "manufacture", index |-> index, tiles |-> tiles]
    /\ UNCHANGED <<width, height, num_selected, num_regions, cityVars,
                   editVars, file>>

\* City::update, the goods distribution pass at the Commercial cell
\* `index`; last also keeps the locals the step leaves
Goods(index) ==
    /\ last.op = "new"
    /\ tiles[index].tile.tile_type = "Commercial"
    /\ \E s \in goods_step(TickState(tiles, population_pool), index) :
       \E g \in {goods_scan([tiles |-> tiles, received_goods |-> 0,
                             max_customers |-> 0],
                            tiles[index].tile.regions[1],
                            tiles[index].tile.variant + 1, 0)} :
          /\ tiles' = s.tiles
          /\ last' = [op |-> "goods", index |-> index, tiles |-> tiles,
                      max_customers |-> g.max_customers,
                      industrial_revenue |-> s.industrial_revenue,
                      commercial_revenue |-> s.commercial_revenue]
    /\ UNCHANGED <<width, height, num_selected, num_regions, cityVars,
                   editVars, file>>

NextTrade ==
    \/ \E index \in DOMAIN tiles : Manufacture(index)
    \/ \E index \in DOMAIN tiles : Goods(index)

SpecTrade == InitTrade /\ [][NextTrade]_vars

---------------------------------------------------------------------------
(* The count of the unemployed in the employment distribution pass, in     *)
(* the arithmetic of f64: SpecLedger                                       *)

\* the magnitude of an f64 is kept in two limbs, in units of 2^-53: every
\* f64 of magnitude 0 or 0.5 ..< 64 is a whole number of these units, and
\* so are the sums and differences of such numbers
Limb == 2^15 * 2^15

\* the f64 (hi * Limb + lo) * 2^-53, negative if neg
Double(neg, hi, lo) == [neg |-> neg, hi |-> hi, lo |-> lo]

\* the f64 of the whole number n < 64
f64_of(n) == Double(FALSE, n * 2^23, 0)

\* the number of binary digits of n
RECURSIVE BitLen(_)
BitLen(n) == IF n = 0 THEN 0 ELSE 1 + BitLen(n \div 2)

\* round-to-nearest-even of the magnitude hi * Limb + lo to the 53
\* significant digits of an f64
f64_round(neg, hi, lo) ==
    LET digits == IF hi > 0 THEN 30 + BitLen(hi) ELSE BitLen(lo)
        q == 2^(Max(digits - 53, 0))
        r == lo % q
        odd == (lo \div q) % 2 = 1
        up == 2 * r > q \/ (2 * r = q /\ odd)
        l == (lo - r) + (IF up THEN q ELSE 0)
    IN  Double(neg, hi + l \div Limb, l % Limb)

\* x + y of f64
f64_add(x, y) ==
    LET less == x.hi < y.hi \/ (x.hi = y.hi /\ x.lo < y.lo)
        big == IF less THEN y ELSE x
        small == IF less THEN x ELSE y
        sum == x.lo + y.lo
        diff == big.lo - small.lo
    IN  IF x.neg = y.neg
        THEN f64_round(x.neg, x.hi + y.hi + sum \div Limb, sum % Limb)
        ELSE IF big.hi = small.hi /\ big.lo = small.lo
        THEN Double(FALSE, 0, 0)
        ELSE IF diff < 0
        THEN f64_round(big.neg, big.hi - small.hi - 1, diff + Limb)
        ELSE f64_round(big.neg, big.hi - small.hi, diff)

\* x - y of f64
f64_sub(x, y) == f64_add(x, [y EXCEPT !.neg = ~@])

\* x > y of f64
f64_gt(x, y) ==
    LET d == f64_sub(x, y)
    IN  ~d.neg /\ (d.hi > 0 \/ d.lo > 0)

\* f64::min
f64_min(x, y) == IF f64_gt(x, y) THEN y ELSE x

\* distribute_pool with the change_rate 0.0 of the hire loops
distribute_pool_f64(pool, people, max_pop) ==
    LET moving == f64_min(f64_min(f64_sub(max_pop, people), f64_of(4)), pool)
        some == f64_gt(pool, f64_of(0))
        pool1 == IF some THEN f64_sub(pool, moving) ELSE pool
        \* population + population * 0.0
        pop1 == IF some THEN f64_add(people, moving) ELSE people
    IN  IF f64_gt(pop1, max_pop)
        THEN <<f64_add(pool1, f64_sub(pop1, max_pop)), max_pop>>
        ELSE <<pool1, pop1>>

\* unemployed.iter().map(|&(people, _)| people).sum()
RECURSIVE f64_sum(_, _, _)
f64_sum(unemployed, k, acc) ==
    IF k > Len(unemployed) THEN acc
    ELSE f64_sum(unemployed, k + 1, f64_add(acc, unemployed[k]))

\* the work places of SpecLedger
LedgerPlaces == 2
\* max_pop_per_level of the zones of the game
LedgerCap == 50

\* the unemployed of the homes, in the order of the day, when the
\* employment pass starts: the lists of the first days of a new city of two
\* Residential, a Commercial and an Industrial cell, whose first people
\* arrive as 1 + 100 * 100 * 0.95 * 0.0001 = 1.95 and grow by 0.00032 a day
LedgerSamples ==
    {
     \* 0.9753120000000001
     <<Double(FALSE, 8181510, 49065707)>>,
     \* 0.9756240998400001
     <<Double(FALSE, 8184128, 138416728)>>,
     \* 1.937123852517026
     <<Double(FALSE, 16249772, 693868228)>>,
     \* 0.9614953616938912, 0.9759362995519489
     <<Double(FALSE, 8065607, 733438969), Double(FALSE, 8186747, 53592468)>>,
     \* 0.9762485991678056, 0.9618030402096333
     <<Double(FALSE, 8189366, 868622612), Double(FALSE, 8068188, 727488917)>>,
     \* 1.923992048081157, 0.9618074325978826
     <<Double(FALSE, 16139615, 92846432), Double(FALSE, 8068225, 562157595)>>,
     \* 0.9624230878438264, 0.9765609987195393
     <<Double(FALSE, 8073390, 15109077), Double(FALSE, 8191987, 436311465)>>,
     \* 0.9621152109763139, 1.924607725536543
     <<Double(FALSE, 8070807, 381948859), Double(FALSE, 16144779, 819584610)>>
    }

InitLedger ==
    /\ InitCity(0, 0, 0)
    /\ InitEdit
    /\ file = <<>>
    /\ \E u \in LedgerSamples :
          last = [op |-> "employment",
                  unemployed |-> u,
                  num_unemployed |-> f64_sum(u, 1, f64_of(0)),
                  places |-> [w \in 1 .. LedgerPlaces |-> f64_of(0)],
                  place |-> 1, entry |-> 1]

\* one turn of the loop over the unemployed at a Commercial or Industrial
\* cell: the draw, and for a hire distribute_pool and the three assignments
HireEntry ==
    /\ last.op = "employment"
    /\ last.place <= LedgerPlaces
    /\ LET people == last.unemployed[last.entry]
           num == last.num_unemployed
           some == f64_gt(people, f64_of(0))
           \* (*people / num_unemployed) * (1.0 - tax) * 0.15 > task_rng().gen()
           hires == IF ~some \/ num.neg THEN {FALSE}
                    ELSE IF num.hi = 0 /\ num.lo = 0 THEN {TRUE}
                    ELSE BOOLEAN
           r == distribute_pool_f64(people, last.places[last.place],
                                    f64_of(LedgerCap))
           at_end == last.entry = Len(last.unemployed)
       IN  \E hire \in hires :
              last' = [op |-> "employment",
                       unemployed |-> IF hire
                                      THEN [last.unemployed EXCEPT ![last.entry] = r[1]]
                                      ELSE last.unemployed,
                       num_unemployed |-> IF hire
                                          THEN f64_sub(num, f64_sub(people, r[1]))
                                          ELSE num,
                       places |-> IF hire
                                  THEN [last.places EXCEPT ![last.place] = r[2]]
                                  ELSE last.places,
                       place |-> IF at_end THEN last.place + 1 ELSE last.place,
                       entry |-> IF at_end THEN 1 ELSE last.entry + 1]
    /\ UNCHANGED <<mapVars, cityVars, editVars, file>>

\* assert!(num_unemployed >= 0.0) after the last cell
AssertEmployed ==
    /\ last.op = "employment"
    /\ last.place > LedgerPlaces
    /\ last' = [last EXCEPT !.op = IF last.num_unemployed.neg
                                   THEN "panic" ELSE "manufacture"]
    /\ UNCHANGED <<mapVars, cityVars, editVars, file>>

NextLedger ==
    \/ HireEntry
    \/ AssertEmployed

SpecLedger == InitLedger /\ [][NextLedger]_vars

\* C39: the assertion num_unemployed >= 0 at the end of the employment
\* pass holds on every day: throughout the pass num_unemployed is at least 0.
C39_Assertion ==
    ~last.num_unemployed.neg

---------------------------------------------------------------------------
(* The four passes of a processed day, cell by cell: SpecPasses            *)

\* the passes of City::update, in the order of its loops
Passes == <<"population", "employment", "manufacture", "goods">>

\* the goods distribution pass run before the manufacture pass
next_pass_goods_first(pass) ==
    CASE pass = "population" -> "employment"
      [] pass = "employment" -> "goods"
      [] pass = "goods" -> "manufacture"
      [] pass = "manufacture" -> "settle"

\* the loop that follows the loop `pass` in City::update; the migration and
\* the totals ("settle") follow the last
next_pass(pass) ==
    CASE pass = "population" -> "employment"
      [] pass = "employment" -> "manufacture"
      [] pass = "manufacture" -> "goods"
      [] pass = "goods" -> "settle"

\* a city that has been running, on the grid and with the pools of
\* SpecIntake: grass, full homes, work places without people, and
\* industries with people and one resource left; nothing is produced or
\* stored when the day starts
InitPasses ==
    /\ width = IntakeW /\ height = IntakeH
    /\ \E m \in [Indices(IntakeW, IntakeH) ->
                    {Cell(t, 1, "Deselected") :
                        t \in {tile_atlas("grass"),
                               intake_tile("residential", Fix(IntakeCap)),
                               intake_tile("commercial", 0),
                               intake_tile("industrial", Fix(1))}}] :
       \E r \in {tiles_changed(m, IntakeW, IntakeH)} :
          /\ tiles = r.tiles
          /\ num_regions = <<r.regions>>
    /\ num_selected = 0
    /\ population_pool \in IntakePools
    /\ population = population_pool + Residents(tiles, DOMAIN tiles)
    /\ employable = 0
    /\ current_time = 0
    /\ earnings = 0
    /\ funds = 0
    /\ day = IntakeStartDay
    /\ InitEdit
    /\ file = <<>>
    /\ last = [op |-> "new"]

\* City::update(dt) with dt >= time_per_day, up to the first loop: the
\* day, the monthly settlement, and the order drawn for the day
StartDay ==
    /\ last.op = "new"
    /\ day' = day + 1
    /\ current_time' = 0
    /\ funds' = IF (day + 1) % DaysPerMonth = 0 THEN funds + earnings ELSE funds
    /\ earnings' = IF (day + 1) % DaysPerMonth = 0 THEN 0 ELSE earnings
    /\ \E order \in shuffled_indices(tiles) :
          last' = [op |-> "population", k |-> 1, order |-> order,
                   s |-> TickState(tiles, population_pool),
                   visited |-> [p \in {Passes[n] : n \in DOMAIN Passes} |-> <<>>]]
    /\ UNCHANGED <<mapVars, population_pool, population, employable,
                   editVars, file>>

\* one turn of the loop last.op, at the cell `index`; after the last turn
\* of a loop the next loop starts (the employment distribution pass with the
\* list of the unemployed, the manufacture pass after the assertion)
visit(index) ==
    /\ last.op \in {Passes[n] : n \in DOMAIN Passes}
    /\ \E s1 \in pass_step(last.op, last.s, index) :
          LET at_end == last.k = Len(last.order)
              op == IF ~at_end THEN last.op
                    ELSE IF last.op = "employment" /\ s1.num_unemployed < 0
                    THEN "panic"
                    ELSE next_pass(last.op)
              s2 == IF at_end /\ op = "employment"
                    THEN with_unemployed(s1, last.order) ELSE s1
          IN  /\ tiles' = s1.tiles
              /\ population_pool' = s1.pool
              /\ last' = [op |-> op,
                          k |-> IF at_end THEN 1 ELSE last.k + 1,
                          order |-> last.order,
                          s |-> s2,
                          visited |-> [last.visited EXCEPT
                                          ![last.op] = Append(@, index)]]
    /\ UNCHANGED <<width, height, num_selected, num_regions, current_time,
                   population, employable, earnings, funds, day, editVars,
                   file>>

\* the goods distribution pass going through the cells in raster order
VisitCell_raster ==
    /\ last.op # "new"
    /\ visit(IF last.op = "goods" THEN last.k - 1 ELSE last.order[last.k])

\* for &index in shuffled_indices.iter()
VisitCell ==
    /\ last.op # "new"
    /\ visit(last.order[last.k])

\* City::update after the loops: the pool, the migration and the totals
Settle ==
    /\ last.op = "settle"
    /\ \E f \in settle(last.s, [population |-> population,
                                employable |-> employable,
                                earnings |-> earnings]) :
          /\ population_pool' = f.pool
          /\ population' = f.population
          /\ employable' = f.employable
          /\ earnings' = f.earnings
    /\ last' = [last EXCEPT !.op = "done"]
    /\ UNCHANGED <<mapVars, current_time, funds, day, editVars, file>>

NextPasses ==
    \/ StartDay
    \/ VisitCell
    \/ Settle

SpecPasses == InitPasses /\ [][NextPasses]_vars

\* whether the sequence a starts the sequence b
Prefix(a, b) ==
    /\ Len(a) <= Len(b)
    /\ \A k \in 1 .. Len(a) : a[k] = b[k]

\* C33: the order drawn for a day is a permutation of the cell indices
\* 0 .. width * height - 1; each of the four passes goes through the cells
\* in that order, so that it has visited every cell exactly once when it
\* ends, and all four passes use the same order.
C33_SameOrder ==
    last.op # "new" =>
        /\ Len(last.order) = width * height
        /\ {last.order[k] : k \in 1 .. Len(last.order)} = 0 .. (width * height - 1)
        /\ \A n \in DOMAIN Passes : Prefix(last.visited[Passes[n]], last.order)
        /\ last.op \in {"settle", "done"} =>
              \A n \in DOMAIN Passes : last.visited[Passes[n]] = last.order

\* the four passes have gone through the cells from the last to the first
C33_Witness ==
    /\ last.op = "settle"
    /\ \A k \in 1 .. Len(last.order) : last.order[k] = Len(last.order) - k
    /\ \A n \in DOMAIN Passes : last.visited[Passes[n]] = last.order

\* C40: the passes of a day run in the order population distribution,
\* employment distribution, manufacture, goods distribution, each over all
\* cells before the next starts; so a unit produced on a day is manufactured
\* on that day (no production is left when the passes are over) and can be
\* sold to a Commercial cell on that day.
C40_PassOrder ==
    last.op # "new" =>
        /\ \A n, m \in DOMAIN Passes :
              (n < m /\ last.visited[Passes[m]] # <<>>)
                 => last.visited[Passes[n]] = last.order
        /\ last.op \in DOMAIN last.visited =>
              /\ Len(last.visited[last.op]) = last.k - 1
              /\ \A n \in DOMAIN Passes :
                    (Passes[n] = last.op) =>
                       \A m \in DOMAIN Passes :
                          m > n => last.visited[Passes[m]] = <<>>
        /\ last.op \in {"settle", "done"} =>
              \A i \in DOMAIN tiles : tiles[i].tile.production = 0

\* an industry has used its last resource, and goods have been sold on the
\* same day, in a city that had stored none
C40_Witness ==
    /\ last.op = "settle"
    /\ last.s.industrial_revenue > 0
    /\ \E i \in DOMAIN tiles :
          /\ tiles[i].tile.tile_type = "Industrial"
          /\ tiles[i].resources = 0

---------------------------------------------------------------------------
(* Claims checked under Spec                                               *)

\* C1: whatever ticks, bulldozes and tiles_changed calls a new city has
\* seen, every Residential, Commercial and Industrial cell holds at least 0
\* and at most max_pop_per_level * (variant + 1) people.
C1_Capacity ==
    \A i \in DOMAIN tiles :
       tiles[i].tile.tile_type \in Zoned =>
          /\ 0 <= tiles[i].tile.population
          /\ tiles[i].tile.population <= max_pop_of(tiles[i].tile)

\* a tick has left a home full
C1_Witness ==
    /\ day > 0
    /\ \E i \in DOMAIN tiles :
          /\ tiles[i].tile.tile_type = "Residential"
          /\ tiles[i].tile.population > 0
          /\ tiles[i].tile.population = max_pop_of(tiles[i].tile)

\* C5: an update after which the accumulated time is still below
\* time_per_day (the only step that raises current_time) changes nothing
\* else: not the day, the money, the totals, the pool, nor any cell.
C5_SubPeriodTick ==
    [][current_time' > current_time =>
          UNCHANGED <<width, height, tiles, num_selected, num_regions,
                      population_pool, population, employable, earnings,
                      funds, day>>]_vars

\* an update has returned early in a city that has people
C5_Witness ==
    /\ current_time > 0
    /\ day > 0
    /\ population > 0

\* C20: an update raises the day by 0 or by 1, however long the frame; the
\* day is raised exactly when the accumulated time has reached time_per_day,
\* and current_time is then 0, the excess discarded; otherwise current_time
\* stays below time_per_day.
C20_DayStep ==
    /\ [](current_time >= 0 /\ current_time < Fix(TimePerDay))
    /\ [][/\ day' \in {day, day + 1}
          /\ day' = day + 1 => current_time' = 0
          /\ day' = day => current_time' >= current_time]_vars

\* the last day has been reached and nothing is left in the accumulator
C20_Witness ==
    /\ day = MaxDay
    /\ current_time = 0

\* C32: in every state a new city reaches by updates and edits (bulldoze
\* and tiles_changed), the reported population is the sum of the populations
\* of the Residential cells plus the homeless pool.
C32_Population ==
    population = population_pool
                    + SumSet({i \in DOMAIN tiles :
                                 tiles[i].tile.tile_type = "Residential"},
                             [i \in DOMAIN tiles |-> tiles[i].tile.population])

\* a city that has processed a day, with residents in a home and people
\* without one
C32_Witness ==
    /\ day > 0
    /\ population_pool > 0
    /\ population > population_pool

---------------------------------------------------------------------------
(* Claims checked under SpecPool                                           *)

C4_Clamp ==
    last.op = "distribute_pool" =>
        LET moved == IF last.pool > 0
                     THEN Min(Min(last.max_pop - last.population, Fix(4)), last.pool)
                     ELSE 0
            grown == last.population + moved
                     + Frac(last.population + moved, last.change_rate, RateDen)
        IN  /\ last.result[2] <= last.max_pop
            /\ grown > last.max_pop =>
                  last.result[1] = last.pool - moved + (grown - last.max_pop)
            /\ grown <= last.max_pop =>
                  last.result = <<last.pool - moved, grown>>

\* a call whose growth alone took the population above max_pop
C4_Witness ==
    /\ last.op = "distribute_pool"
    /\ last.change_rate > 0
    /\ last.population <= last.max_pop
    /\ last.result[2] = last.max_pop
    /\ last.result[1] + last.result[2] > last.pool + last.population

---------------------------------------------------------------------------
(* Claims checked under SpecSelect                                         *)

\* the cells flagged Selected or Invalid
Flagged == {i \in DOMAIN tiles : tiles[i].selection # "Deselected"}

\* C6: select flags exactly the cells of the grid that lie in the rectangle
\* spanned by the two corners, so none when the rectangle misses the grid.
C6_Intersection ==
    last.op = "select" =>
        Flagged = {i \in DOMAIN tiles :
                     /\ Min(last.start.x, last.end.x) <= i % width
                     /\ i % width <= Max(last.start.x, last.end.x)
                     /\ Min(last.start.y, last.end.y) <= i \div width
                     /\ i \div width <= Max(last.start.y, last.end.y)}

\* C7: select called with the corners exchanged, or with the other two
\* corners of the same rectangle, leaves the same flags and num_selected.
C7_Symmetric ==
    last.op = "select" =>
        LET c == clear_selected(tiles).tiles
            same(a, b) ==
                select(c, width, height, 0, a, b, last.blacklisted)
                    = [tiles |-> tiles, num_selected |-> num_selected]
        IN  /\ same(last.end, last.start)
            /\ same(Point(last.start.x, last.end.y), Point(last.end.x, last.start.y))
            /\ same(Point(last.end.x, last.start.y), Point(last.start.x, last.end.y))

\* a select from the lower right to the upper left corner of a rectangle
\* that holds a Selected and an Invalid cell
C7_Witness ==
    /\ last.op = "select"
    /\ last.start.x > last.end.x
    /\ last.start.y > last.end.y
    /\ num_selected > 0
    /\ \E i \in DOMAIN tiles : tiles[i].selection = "Invalid"

\* v moved into lo .. hi
Clamped(v, lo, hi) == IF v < lo THEN lo ELSE IF v > hi THEN hi ELSE v

\* the cells of the rectangle between the two corners of the last select,
\* each corner moved into the grid
ClampedRect ==
    {i \in DOMAIN tiles :
        /\ Clamped(Min(last.start.x, last.end.x), 0, width - 1) <= i % width
        /\ i % width <= Clamped(Max(last.start.x, last.end.x), 0, width - 1)
        /\ Clamped(Min(last.start.y, last.end.y), 0, height - 1) <= i \div width
        /\ i \div width <= Clamped(Max(last.start.y, last.end.y), 0, height - 1)}

\* C23: after clear_selected and one select, the cells of the clamped
\* rectangle are Invalid where the tile type is blacklisted and Selected
\* elsewhere, the cells outside it are Deselected, and num_selected is the
\* number of Selected cells.
C23_SelectFlags ==
    last.op = "select" =>
        /\ \A i \in DOMAIN tiles :
              tiles[i].selection =
                 IF i \notin ClampedRect THEN "Deselected"
                 ELSE IF tiles[i].tile.tile_type \in last.blacklisted
                 THEN "Invalid" ELSE "Selected"
        /\ num_selected = Cardinality({i \in DOMAIN tiles :
                                         tiles[i].selection = "Selected"})

\* a select with a corner outside the grid that left cells of all three
\* flags
C23_Witness ==
    /\ last.op = "select"
    /\ last.end.x >= width
    /\ \E i, j, n \in DOMAIN tiles :
          /\ tiles[i].selection = "Selected"
          /\ tiles[j].selection = "Invalid"
          /\ tiles[n].selection = "Deselected"

---------------------------------------------------------------------------
(* Claims checked under SpecRegions                                        *)

\* the cells that satisfy the membership predicate of tiles_changed
Members == {i \in DOMAIN tiles : tiles[i].tile.tile_type \in RegionMembers}

\* i and j are neighbours to the north, east, south or west
Adjacent(i, j) ==
    \/ (i \div width = j \div width) /\ Abs((i % width) - (j % width)) = 1
    \/ (i % width = j % width) /\ Abs((i \div width) - (j \div width)) = 1

RECURSIVE Joined(_)
\* the members joined to a cell of S by a path of adjacent members
Joined(S) ==
    LET more == S \cup {j \in Members : \E i \in S : Adjacent(i, j)}
    IN  IF more = S THEN S ELSE Joined(more)

\* C2: after find_connected_regions two cells carry the same non-zero label
\* exactly if both are members joined by a path of adjacent members; every
\* member has a label of at least 1 and every other cell the label 0.
C2_Regions ==
    last.op = "find_connected_regions" =>
        /\ \A i \in DOMAIN tiles :
              IF i \in Members THEN tiles[i].tile.regions[1] >= 1
              ELSE tiles[i].tile.regions[1] = 0
        /\ \A i, j \in DOMAIN tiles :
              (tiles[i].tile.regions[1] = tiles[j].tile.regions[1]
                 /\ tiles[i].tile.regions[1] # 0)
              <=> (i \in Members /\ j \in Members /\ j \in Joined({i}))

\* a labelling with two regions, one of which has two cells that are joined
\* only by a detour
C2_Witness ==
    /\ last.op = "find_connected_regions"
    /\ num_regions[1] = 3
    /\ \E i, j \in Members :
          /\ tiles[i].tile.regions[1] = tiles[j].tile.regions[1]
          /\ i \div width # j \div width
          /\ i % width # j % width

---------------------------------------------------------------------------
(* Claims checked under SpecRelabel                                        *)

\* the tiles ts with every label replaced by l
Labelled(ts, l) ==
    [i \in DOMAIN ts |-> [ts[i] EXCEPT !.tile.regions = <<l>>]]

\* C15: find_connected_regions is idempotent and deterministic: whatever
\* labels the cells carried before, a run leaves the labels and the count
\* that a run on the same tiles with every label the same would leave, and
\* a second run changes no label and not the count.
C15_Idempotent ==
    last.op = "find_connected_regions" =>
        /\ \A l \in 0 .. MaxLabel :
              \E r \in {find_connected_regions(Labelled(last.tiles, l), width,
                                               height, RegionMembers, 0)} :
                 /\ r.tiles = tiles
                 /\ r.regions = num_regions[1]
        /\ \E r \in {find_connected_regions(tiles, width, height,
                                            RegionMembers, 0)} :
              /\ r.tiles = tiles
              /\ r.regions = num_regions[1]

\* a first run has replaced labels: it found a labelled grass cell and a
\* road cell without a label, and it left two regions
C15_Witness ==
    /\ last.op = "find_connected_regions"
    /\ num_regions[1] = 3
    /\ \E i, j \in DOMAIN tiles :
          /\ last.tiles[i].tile.tile_type = "Grass"
          /\ last.tiles[i].tile.regions[1] # 0
          /\ last.tiles[j].tile.tile_type = "Road"
          /\ last.tiles[j].tile.regions[1] = 0
          /\ tiles[j].tile.regions[1] = 2

\* a second run has found the labels of the first and kept them
C15_SecondRun ==
    /\ last.op = "find_connected_regions"
    /\ last.num_regions = <<3>>
    /\ last.tiles = tiles

\* the members that carry the label l
LabelCells(l) == {i \in Members : tiles[i].tile.regions[1] = l}

\* the first cell of S in raster order
FirstCell(S) == CHOOSE i \in S : \A j \in S : i <= j

\* C22: after find_connected_regions the labels in use are exactly 1 .. k,
\* k being the number of components, and a component whose first cell in
\* raster order comes earlier has the smaller label, so that the component
\* of the first member has label 1.
C22_LabelOrder ==
    last.op = "find_connected_regions" =>
        LET k == Cardinality({Joined({i}) : i \in Members}) IN
        /\ {tiles[i].tile.regions[1] : i \in Members} = 1 .. k
        /\ \A a, b \in 1 .. k :
              a < b => FirstCell(LabelCells(a)) < FirstCell(LabelCells(b))
        /\ Members # {} => tiles[FirstCell(Members)].tile.regions[1] = 1

\* three components, the second of which reaches further back in raster
\* order than the third begins
C22_Witness ==
    /\ last.op = "find_connected_regions"
    /\ num_regions[1] = 4
    /\ \E i \in LabelCells(2) : i > FirstCell(LabelCells(3))

---------------------------------------------------------------------------
(* Claims checked under SpecSearch                                         *)

\* the run that has returned left what find_connected_regions computes
SearchAgrees ==
    last.op = "find_connected_regions" =>
        \E r \in {find_connected_regions(tiles, width, height,
                                         last.whitelisted, 0)} :
           /\ r.tiles = tiles
           /\ r.regions = num_regions[1]

\* C21: find_connected_regions returns on every grid and for every
\* membership predicate, the one that holds of every cell included, and
\* during a run no cell has a non-zero label written more than once.
C21_Terminates ==
    /\ [](last.op = "scan" => \A i \in DOMAIN tiles : last.writes[i] <= 1)
    /\ <>(last.op = "find_connected_regions")

\* a run has returned on a map of members only, every cell labelled once
C21_Witness ==
    /\ last.op = "find_connected_regions"
    /\ \A i \in DOMAIN tiles :
          /\ tiles[i].tile.tile_type \in last.whitelisted
          /\ last.writes[i] = 1

---------------------------------------------------------------------------
(* Claims checked under SpecFile                                           *)

\* C8: a load of the file the map was just saved to succeeds and leaves the
\* width, the height and, cell by cell, the tile type, the population, the
\* variant, the region ids, the production and the stored goods as they were.
C8_RoundTrip ==
    (last.op = "load" /\ last.saved) =>
        /\ last.ok
        /\ width = last.width
        /\ height = last.height
        /\ DOMAIN tiles = DOMAIN last.tiles
        /\ \A i \in DOMAIN tiles :
              /\ tiles[i].tile.tile_type = last.tiles[i].tile.tile_type
              /\ tiles[i].tile.population = last.tiles[i].tile.population
              /\ tiles[i].tile.variant = last.tiles[i].tile.variant
              /\ tiles[i].tile.regions = last.tiles[i].tile.regions
              /\ tiles[i].tile.production = last.tiles[i].tile.production
              /\ tiles[i].tile.stored_goods = last.tiles[i].tile.stored_goods

\* C9: a load that fails after the header (the file has its eight bytes)
\* leaves the width, the height and the cells as they were.
C9_FailedLoad ==
    (last.op = "load" /\ ~last.ok /\ Len(file) >= 8) =>
        /\ width = last.width
        /\ height = last.height
        /\ tiles = last.tiles

---------------------------------------------------------------------------
(* Claims checked under SpecEdit                                           *)

\* C10: between the events of the edit state, and so at the start of every
\* tick, every Road, Residential, Commercial and Industrial cell has a
\* region id other than 0 and every other cell has region id 0.
C10_RegionIds ==
    \A i \in DOMAIN tiles :
       (tiles[i].tile.tile_type \in RegionMembers)
          <=> (tiles[i].tile.regions[1] # 0)

\* a day has been processed on a map that has a bought zone or road next to
\* a cell that is none
C10_Witness ==
    /\ day > 0
    /\ funds < Fix(EditFunds)
    /\ \E i, j \in DOMAIN tiles :
          /\ tiles[i].tile.tile_type \in RegionMembers
          /\ tiles[i].tile.regions[1] # 0
          /\ tiles[j].tile.tile_type \notin RegionMembers

\* C35: a left release while Selecting with a tool bulldozes only if the
\* funds cover cost * num_selected, and then lowers the funds by exactly
\* that; otherwise no tile, no resources and no funds change. The cost
\* counts the Selected cells only, never an Invalid one, and the funds are
\* never negative.
C35_Purchase ==
    /\ [](funds >= 0)
    /\ [][(LeftRelease /\ action_state.kind = "Selecting" /\ current_tile # "none") =>
            LET chosen == {i \in DOMAIN tiles : tiles[i].selection = "Selected"}
                total_cost == Fix(tile_atlas(current_tile).cost * Cardinality(chosen))
            IN  IF funds >= total_cost
                THEN /\ funds' = funds - total_cost
                     /\ \A i \in DOMAIN tiles :
                           IF i \in chosen
                           THEN tiles'[i].tile.tile_type
                                   = tile_atlas(current_tile).tile_type
                           ELSE tiles'[i].tile.tile_type = tiles[i].tile.tile_type
                ELSE /\ funds' = funds
                     /\ population_pool' = population_pool
                     /\ \A i \in DOMAIN tiles :
                           /\ tiles'[i].tile = tiles[i].tile
                           /\ tiles'[i].resources = tiles[i].resources]_vars

\* the last funds have been spent, a home stands, and a selection over a
\* home and another cell is waiting that the funds do not cover
C35_Witness ==
    /\ action_state.kind = "Selecting"
    /\ current_tile # "none"
    /\ funds = 0
    /\ num_selected > 0
    /\ \E i, j \in DOMAIN tiles :
          /\ tiles[i].tile.tile_type = "Residential"
          /\ tiles[i].selection = "Invalid"
          /\ tiles[j].selection = "Selected"

\* C36: whenever the action state is not Selecting, no cell is flagged
\* Selected or Invalid and num_selected is 0.
C36_NoLeftover ==
    action_state.kind # "Selecting" =>
        /\ num_selected = 0
        /\ \A i \in DOMAIN tiles : tiles[i].selection = "Deselected"

---------------------------------------------------------------------------
(* Claims checked under SpecBulldoze                                       *)

\* the people in the Commercial and Industrial cells of ts that are in S
Workers(ts, S) ==
    SumSet({i \in S : ts[i].tile.tile_type \in {"Commercial", "Industrial"}},
           [i \in DOMAIN ts |-> ts[i].tile.population])

\* C11: bulldoze adds to the pool exactly the people of the Selected cells
\* that held a Residential tile, so the people in homes and the pool
\* together are as many after the call as before.
C11_ResidentsReturned ==
    last.op = "bulldoze" =>
        /\ population_pool = last.pool + Residents(last.tiles, selected(last.tiles))
        /\ Residents(tiles, DOMAIN tiles) + population_pool
              = Residents(last.tiles, DOMAIN last.tiles) + last.pool

\* two homes with people in them have been bulldozed at once
C11_Witness ==
    /\ last.op = "bulldoze"
    /\ population_pool > last.pool + Fix(1)
    /\ Cardinality({i \in selected(last.tiles) :
                       last.tiles[i].tile.tile_type = "Residential"}) >= 2

\* C12: after a bulldoze of Selected cells that held Commercial or
\* Industrial tiles (and of no home), the unemployed of the city are more
\* than before by the people these cells held.
C12_WorkersReturned ==
    (/\ last.op = "bulldoze"
     /\ Residents(last.tiles, selected(last.tiles)) = 0
     /\ last.tool # "residential")
    => City_get_unemployed(tiles)
          = City_get_unemployed(last.tiles) + Workers(last.tiles, selected(last.tiles))

\* C13: bulldoze leaves the resources of every cell, Selected or not, as
\* they were, whatever tile it places.
C13_ResourcesKept ==
    last.op = "bulldoze" =>
        \A i \in DOMAIN tiles : tiles[i].resources = last.tiles[i].resources

\* a cell whose resources were used up has been given another tile
C13_Witness ==
    /\ last.op = "bulldoze"
    /\ \E i \in DOMAIN tiles :
          /\ last.tiles[i].selection = "Selected"
          /\ tiles[i].tile.tile_type # last.tiles[i].tile.tile_type
          /\ tiles[i].resources = 0

\* C34: bulldoze replaces the tile of the Selected cells only: every cell
\* flagged Deselected or Invalid keeps its tile type, level, population,
\* production and stored goods, and every cell keeps its flag.
C34_OnlySelected ==
    last.op = "bulldoze" =>
        \A i \in DOMAIN tiles :
           /\ tiles[i].selection = last.tiles[i].selection
           /\ last.tiles[i].selection \in {"Deselected", "Invalid"} =>
                 /\ tiles[i].tile.tile_type = last.tiles[i].tile.tile_type
                 /\ tiles[i].tile.variant = last.tiles[i].tile.variant
                 /\ tiles[i].tile.population = last.tiles[i].tile.population
                 /\ tiles[i].tile.production = last.tiles[i].tile.production
                 /\ tiles[i].tile.stored_goods = last.tiles[i].tile.stored_goods

\* a Selected home has been replaced next to an Invalid home and a
\* Deselected work place, both with people in them
C34_Witness ==
    /\ last.op = "bulldoze"
    /\ \E i, j, k \in DOMAIN tiles :
          /\ last.tiles[i].selection = "Selected"
          /\ last.tiles[i].tile.tile_type = "Residential"
          /\ tiles[i].tile.tile_type # "Residential"
          /\ tiles[j].selection = "Invalid"
          /\ tiles[j].tile.tile_type = "Residential"
          /\ tiles[j].tile.population > 0
          /\ tiles[k].selection = "Deselected"
          /\ tiles[k].tile.tile_type \in {"Commercial", "Industrial"}
          /\ tiles[k].tile.population > 0

\* C38: employable is never negative, and a processed day adds
\* |pop_total - population| * prop_can_work to it, so that no step lowers
\* it, the days on which the population falls included.
C38_Employable ==
    /\ [](employable >= 0)
    /\ [][/\ employable' >= employable
          /\ day' = day + 1 =>
                employable' = employable
                                + Frac(Abs(population' - population), PropCanWork, 100)]_vars

\* two days have been processed, and employable is more than
\* prop_can_work of the people: the population has fallen on the second
C38_Witness ==
    /\ day = MaxDay
    /\ employable > Frac(Abs(population), PropCanWork, 100) + Scale \div 2

---------------------------------------------------------------------------
(* Claims about the work places, checked under Spec                        *)

\* C37: the people held by the Commercial and Industrial cells are never
\* more than prop_can_work times the people in the homes: a resident hired
\* on one day is not offered as unemployed again on a later day.
C37_WorkersBound ==
    Workers(tiles, DOMAIN tiles)
       <= Frac(Residents(tiles, DOMAIN tiles), PropCanWork, 100)

---------------------------------------------------------------------------
(* Claims checked under SpecTick                                           *)

\* C14: the resources of a cell are never more than the cell was created
\* with and never less than 0, and no update, no edit and no tiles_changed
\* raises them.
C14_Resources ==
    /\ [](\A i \in DOMAIN tiles :
             tiles[i].resources >= 0 /\ tiles[i].resources <= InitResources)
    /\ [][\A i \in DOMAIN tiles : tiles'[i].resources <= tiles[i].resources]_vars

\* a processed day in which an industry has produced from its last
\* resources: no industry has any left, and one has made goods
C14_Witness ==
    /\ day > TickStartDay
    /\ \A i \in DOMAIN tiles :
          tiles[i].tile.tile_type = "Industrial" => tiles[i].resources = 0
    /\ \E i \in DOMAIN tiles :
          /\ tiles[i].tile.tile_type = "Industrial"
          /\ tiles[i].tile.stored_goods > 1

\* C16: the variant (level) of every Residential, Commercial and Industrial
\* cell is at most the max_levels of its tile.
C16_LevelCap ==
    \A i \in DOMAIN tiles :
       tiles[i].tile.tile_type \in Zoned =>
          tiles[i].tile.variant <= tiles[i].tile.max_levels

\* a day has been processed with a zone at its last level and full
C16_Witness ==
    /\ day > TickStartDay
    /\ \E i \in DOMAIN tiles :
          /\ tiles[i].tile.tile_type \in Zoned
          /\ tiles[i].tile.variant = tiles[i].tile.max_levels
          /\ tiles[i].tile.population = max_pop_of(tiles[i].tile)

\* C17: after every processed day the homeless pool is at least 0, the
\* migration-out step included, which takes
\* (population_pool + num_unemployed) * 0.05 + 1 from it.
C17_PoolNonNegative ==
    population_pool >= 0

---------------------------------------------------------------------------
(* Claims checked under SpecIntake                                         *)

\* C24: in one processed day no zoned cell takes in more than 4 people: a
\* Commercial or Industrial cell, which does not grow by itself, gains at
\* most 4, and a Residential cell at most 4 beyond its organic growth.
C24_IntakeLimit ==
    [][day' = day + 1 =>
          \A i \in DOMAIN tiles :
             LET gain == tiles'[i].tile.population - tiles[i].tile.population
             IN  /\ tiles[i].tile.tile_type \in {"Commercial", "Industrial"}
                    => gain <= Fix(4)
                 /\ tiles[i].tile.tile_type = "Residential"
                    => gain <= Fix(4) + Frac(tiles'[i].tile.population,
                                             BirthRate - DeathRate, RateDen)]_vars

\* the part of C24 that is about homes
C24_HomeIntake ==
    [][day' = day + 1 =>
          \A i \in DOMAIN tiles :
             tiles[i].tile.tile_type = "Residential"
                => tiles'[i].tile.population - tiles[i].tile.population
                      <= Fix(4) + Frac(tiles'[i].tile.population,
                                       BirthRate - DeathRate, RateDen)]_vars

\* the people of the city: those without a home and the residents
People(ts, pool) == pool + Residents(ts, DOMAIN ts)

\* a processed day leaves a whole person more than it found
Arrival == People(tiles', population_pool') >= People(tiles, population_pool) + Fix(1)

\* C29: a processed day of a city without a Commercial cell or without an
\* Industrial cell has nobody move in: migration-in adds at least 1 person
\* when it happens, and the people of such a city grow by organic growth
\* only, by less than 1.
C29_NoImmigration ==
    [][(/\ day' = day + 1
        /\ \/ \A i \in DOMAIN tiles : tiles[i].tile.tile_type # "Commercial"
           \/ \A i \in DOMAIN tiles : tiles[i].tile.tile_type # "Industrial")
       => ~Arrival]_vars

\* a day has been processed in a city with an empty home and a shop with
\* free jobs, but without an industry
C29_Witness ==
    /\ day > IntakeStartDay
    /\ \A i \in DOMAIN tiles : tiles[i].tile.tile_type # "Industrial"
    /\ \E i, j \in DOMAIN tiles :
          /\ tiles[i].tile.tile_type = "Commercial"
          /\ tiles[i].tile.population = 0
          /\ tiles[j].tile.tile_type = "Residential"
          /\ tiles[j].tile.population = 0

\* nobody ever moves in (refuted where both kinds of work place exist)
C29_NobodyArrives ==
    [][day' = day + 1 => ~Arrival]_vars

\* C30: in the employment distribution pass the production of an
\* industrial cell grows by what its resources drop by, 0 or 1, and by 0
\* when the cell has no resources or no people; the pass at that cell
\* changes the production and the resources of no other cell.
C30_Produce ==
    last.op = "employment" =>
        LET before == last.tiles[last.index]
            after == tiles[last.index]
            made == after.tile.production - before.tile.production
        IN  /\ made = before.resources - after.resources
            /\ made \in {0, 1}
            /\ (before.resources = 0 \/ before.tile.population = 0) => made = 0
            /\ \A i \in DOMAIN tiles \ {last.index} :
                  /\ tiles[i].tile.production = last.tiles[i].tile.production
                  /\ tiles[i].resources = last.tiles[i].resources

\* an industry with people has made a unit from its last resource
C30_Witness ==
    /\ last.op = "employment"
    /\ last.tiles[last.index].resources = 1
    /\ tiles[last.index].resources = 0
    /\ tiles[last.index].tile.production = 1

\* an industry with resources but without people has been passed over
C30_NoPeople ==
    /\ last.op = "employment"
    /\ last.tiles[last.index].tile.population = 0
    /\ last.tiles[last.index].resources > 0

\* C31: a processed day never lowers the level (variant) of a zoned cell
\* and raises it by at most 1, and only for a cell below max_levels whose
\* population, as an integer, is max_pop_per_level * (variant + 1) at the
\* level-up check; no pass changes the population of a cell after its check.
C31_LevelStep ==
    [][day' = day + 1 =>
          \A i \in DOMAIN tiles :
             tiles[i].tile.tile_type \in Zoned =>
                /\ tiles'[i].tile.variant \in
                      {tiles[i].tile.variant, tiles[i].tile.variant + 1}
                /\ tiles'[i].tile.variant = tiles[i].tile.variant + 1 =>
                      /\ tiles[i].tile.variant < tiles[i].tile.max_levels
                      /\ AsUint(tiles'[i].tile.population)
                            = tiles[i].tile.max_pop_per_level
                                 * (tiles[i].tile.variant + 1)]_vars

\* a day has raised the level of a full home
C31_Witness ==
    /\ day > IntakeStartDay
    /\ \E i \in DOMAIN tiles :
          /\ tiles[i].tile.tile_type = "Residential"
          /\ tiles[i].tile.variant = 1

---------------------------------------------------------------------------
(* Claims checked under SpecMonth                                          *)

\* the tax on the housed residents that a processed day adds to earnings,
\* from the totals the day leaves
ResidentialAccrual(total, pool) ==
    Frac((total - pool) * 15, ResidentialTax, 100)

\* C19: a tick whose new day is a multiple of 30 raises funds by exactly
\* the earnings held before it and starts earnings again from 0 before its
\* own accrual (exactly the residential accrual where no Commercial cell can
\* earn, at least that much elsewhere); every other tick leaves funds alone
\* and adds its accrual to the earnings held before.
C19_Settlement ==
    [][day' = day + 1 =>
          LET accrual == ResidentialAccrual(population', population_pool')
              shops == \E i \in DOMAIN tiles :
                          tiles[i].tile.tile_type = "Commercial"
          IN  IF day' % DaysPerMonth = 0
              THEN /\ funds' = funds + earnings
                   /\ earnings' >= accrual
                   /\ ~shops => earnings' = accrual
              ELSE /\ funds' = funds
                   /\ earnings' >= earnings + accrual
                   /\ ~shops => earnings' = earnings + accrual]_vars

\* the settlement has paid out earnings and the day has earned again
C19_Witness ==
    /\ day = DaysPerMonth
    /\ funds > Fix(MonthFunds)
    /\ earnings > 0

---------------------------------------------------------------------------
(* Claims checked under SpecTrade                                          *)

\* the cells that the step recorded in last found in the region of its cell
SameRegion ==
    {i \in DOMAIN last.tiles :
        last.tiles[i].tile.regions[1] = last.tiles[last.index].tile.regions[1]}

\* C18: the manufacture pass at an industrial cell changes the production
\* only of Industrial cells of that cell's region, the goods pass at a
\* commercial cell the stored goods only of Industrial cells of that cell's
\* region, and neither changes a cell of another region.
C18_TradeInRegion ==
    last.op \in {"manufacture", "goods"} =>
        \A i \in DOMAIN tiles :
           /\ i \notin SameRegion => tiles[i] = last.tiles[i]
           /\ (last.op = "manufacture"
                 /\ tiles[i].tile.production # last.tiles[i].tile.production)
              => (i \in SameRegion /\ last.tiles[i].tile.tile_type = "Industrial")
           /\ (last.op = "goods"
                 /\ tiles[i].tile.stored_goods # last.tiles[i].tile.stored_goods)
              => (i \in SameRegion /\ last.tiles[i].tile.tile_type = "Industrial")

\* an industry has taken the production of another cell of its region while
\* an industry of another region kept its own
C18_Witness ==
    /\ last.op = "manufacture"
    /\ \E i \in SameRegion \ {last.index} :
          tiles[i].tile.production < last.tiles[i].tile.production
    /\ \E j \in DOMAIN tiles \ SameRegion :
          /\ tiles[j].tile.tile_type = "Industrial"
          /\ tiles[j].tile.production > 0

\* the production held by the Industrial cells of ts in the region of the
\* acting cell
RegionProduction(ts) ==
    SumSet({i \in SameRegion : ts[i].tile.tile_type = "Industrial"},
           [i \in DOMAIN ts |-> ts[i].tile.production])

C25_Exhausted ==
    /\ last.op = "manufacture"
    /\ last.tiles[last.index].tile.variant = 1
    /\ RegionProduction(last.tiles) = 1
    /\ RegionProduction(tiles) = 0

\* C26: the manufacture pass at an industrial cell adds exactly (collected +
\* the production the cell holds after the scan) * (variant + 1) to the
\* cell's stored_goods, never lowers them, and changes the stored_goods of
\* no other cell.
C26_StoredGoods ==
    last.op = "manufacture" =>
        LET collected == RegionProduction(last.tiles) - RegionProduction(tiles)
            own == tiles[last.index].tile
            before == last.tiles[last.index].tile
        IN  /\ own.stored_goods - before.stored_goods
                  = (collected + own.production) * (before.variant + 1)
            /\ own.stored_goods >= before.stored_goods
            /\ \A i \in DOMAIN tiles \ {last.index} :
                  tiles[i].tile.stored_goods = last.tiles[i].tile.stored_goods

\* a cell with a demand of 2 has collected two units from other cells and
\* kept its own: its goods have grown by (2 + 1) * 2
C26_Witness ==
    /\ last.op = "manufacture"
    /\ tiles[last.index].tile.production = 1
    /\ tiles[last.index].tile.stored_goods
          = last.tiles[last.index].tile.stored_goods + 6

\* the goods stored by the Industrial cells of ts in the region of the
\* acting cell
RegionGoods(ts) ==
    SumSet({i \in SameRegion : ts[i].tile.tile_type = "Industrial"},
           [i \in DOMAIN ts |-> ts[i].tile.stored_goods])

\* C27: in the goods distribution pass a commercial cell of variant v, whose
\* demand is v + 1, drains min(demand, goods stored in its region), so never
\* more than its demand: the stored goods of the region's Industrial cells
\* drop by exactly that number, no cell's stored goods grow, and
\* industrial_revenue has 100 * (1 - industrial_tax) for each unit.
C27_Drained ==
    last.op = "goods" =>
        LET demand == last.tiles[last.index].tile.variant + 1
            drained == RegionGoods(last.tiles) - RegionGoods(tiles)
        IN  /\ drained = Min(demand, RegionGoods(last.tiles))
            /\ drained <= demand
            /\ \A i \in DOMAIN tiles :
                  tiles[i].tile.stored_goods <= last.tiles[i].tile.stored_goods
            /\ last.industrial_revenue = drained * Fix(100 - IndustrialTax)

\* a shop with a demand of 2 has drained two of the three units of its
\* region and earned the industries 190
C27_Witness ==
    /\ last.op = "goods"
    /\ last.tiles[last.index].tile.variant = 1
    /\ RegionGoods(last.tiles) = 3
    /\ RegionGoods(tiles) = 1
    /\ last.industrial_revenue = Fix(190)

\* C28: in the goods distribution pass, max_customers of a commercial cell
\* is the sum of the population of the Residential cells of its region,
\* wherever they lie.
C28_Customers ==
    last.op = "goods" =>
        last.max_customers
           = SumSet({i \in SameRegion : last.tiles[i].tile.tile_type = "Residential"},
                    [i \in DOMAIN tiles |-> last.tiles[i].tile.population])

=============================================================================
